---- MODULE Spec2Model ----
(***************************************************************************)
(* A model of the stunk reactive state engine: the history wrapper, the    *)
(* cell with its batch scheduler, the computed values and the async cell.  *)
(* Each part has its own variables and its own specification; the parts    *)
(* that a specification does not exercise stay at their initial values.    *)
(***************************************************************************)
EXTENDS Integers, Sequences, FiniteSets, TLC

VARIABLES
    \* ---- history wrapper (src/src/middleware/history.ts, withHistory)
    history,          \* the array `history`
    currentIndex,     \* `currentIndex` (0-based, as in the source)
    isHistoryAction,  \* the re-entrancy flag `isHistoryAction`
    hBase,            \* the wrapped cell's `value`
    hMw,              \* the wrapped cell's middleware: none, a clamp, a validator
    hOps,             \* the calls made so far (observer), capped at MaxOps
    \* ---- cell and batch scheduler, in its two implementations:
    \*      "registry" is src/src/core/core.ts (lines 195-337),
    \*      "queue"    is src/src/core.ts
    impl,             \* which of the two the run is about
    thrower,          \* the cell whose subscribers' callbacks throw (0: none)
    value,            \* each cell's `value`
    subscribers,      \* each cell's `subscribers` (a Set, in insertion order)
    isBatching,       \* registry: `isBatching`
    dirtyChunks,      \* registry: `dirtyChunks` (a Set of ids, in insertion order)
    chunkRegistry,    \* registry: the ids `chunkRegistry` holds
    batchDepth,       \* queue: `batchDepth`
    batchQueue,       \* queue: `batchQueue`, each closure named by its cell
    isDirty,          \* queue: each cell's `isDirty`
    frames,           \* the batch calls in progress; each holds wasBatchingBefore
    exc,              \* an exception is propagating out of a batch call
    dead,             \* each cell's callbacks that a destroy() removed and that
                      \* did not subscribe again since (observer)
    ghost,            \* a callback was invoked while in `dead` (observer)
    obs,              \* what the callbacks saw in the latest top-level call (observer)
    \* ---- computed values (src/unnamed/part_009) over the diamond A, B, C, D
    dVal,             \* each node's cell `value` (for a computed: computedChunk)
    dSubs,            \* each node's cell `subscribers`, in insertion order
    dCached,          \* each computed's `cachedValue`
    dDirty,           \* each computed's `isDirty`
    dCount,           \* each computed's `subscriberCount`
    dLog,             \* the external callbacks invoked by the latest call (observer)
    dEvals,           \* the values D's function produced in the latest call (observer)
    dLast,            \* the latest call (observer)
    dNoted,           \* the dependency notifications the latest call delivered to
                      \* computeds, each with subscriberCount at that moment (observer)
    dRuns,            \* the runs of compute functions in the latest call, each
                      \* with what asked for it (observer)
    \* ---- async cell (src/src/query/async-chunk.ts, src/src/core/asyncChunk.ts)
    aCfg,             \* the version and the options the cell was created with
    aState,           \* baseChunk's value: loading, error, data, lastFetched, pagination
    currentParams,    \* `currentParams`
    aFlights,         \* the fetchData calls suspended at an await
    aNext,            \* the number the next fetch will carry (start order)
    intervalId,       \* the refetch interval is armed
    cacheTimeoutId,   \* the cache timer is armed
    aLast,            \* the latest step and the fetch it belongs to (observer)
    aNewest,          \* the latest-started fetch that has succeeded (observer)
    cleaned,          \* cleanup() was the caller's last operation (observer)
    sawLoading,       \* the last step wrote a state with loading true (observer)
    aPaging,          \* the nextPage() calls made since construction, while the
                      \* caller has made no other call and no timer has fired (observer)
    \* ---- one cell with its middleware pipeline, outside any batch
    mCfg,             \* the version of set, the pipeline, primitive or record
    mValue,           \* the cell's `value`
    mSubs,            \* the cell's `subscribers`
    mLast,            \* the latest call and what it did (observer)
    \* ---- derived cells: a computed with tracked dependencies, a selector
    kc,               \* the computed's closure, the cells it reads, and what the
                      \* latest call did (runs, moved, told, threw: observers)
    sel,              \* the selector's closure, its source, and what the latest
                      \* call did (told, threw: observers)
    rt                \* what the selector's cells share with batch
                      \* (isBatching, dirtyChunks), the closure of a computed of
                      \* src/unnamed/part_010 lines 4-75, and the calls of batch
                      \* and computeValue that are running

varsH == <<history, currentIndex, isHistoryAction, hBase, hOps, hMw>>
varsB == <<impl, thrower, value, subscribers, isBatching, dirtyChunks, chunkRegistry,
           batchDepth, batchQueue, isDirty, frames, exc, dead, ghost,
           obs>>

varsD == <<dVal, dSubs, dCached, dDirty, dCount, dLog, dEvals, dLast, dNoted, dRuns>>

varsA == <<aCfg, aState, currentParams, aFlights, aNext, intervalId, cacheTimeoutId,
           aLast, aNewest, cleaned, sawLoading, aPaging>>

varsM == <<mCfg, mValue, mSubs, mLast>>

varsV == <<kc, sel, rt>>

vars == <<varsH, varsB, varsD, varsA, varsM, varsV>>

\* what the actions of one part leave alone
notH == <<varsB, varsD, varsA, varsM, varsV>>
notB == <<varsH, varsD, varsA, varsM, varsV>>
notD == <<varsH, varsB, varsA, varsM, varsV>>
notA == <<varsH, varsB, varsD, varsM, varsV>>
notM == <<varsH, varsB, varsD, varsA, varsV>>
notV == <<varsH, varsB, varsD, varsA, varsM>>

(***************************************************************************)
(* Values.  Cells hold small naturals; Undefined stands for JavaScript's   *)
(* `undefined` (what an out-of-range array read yields).                   *)
(***************************************************************************)
MaxVal == 3
Undefined == -1
Vals == 0..MaxVal

(***************************************************************************)
(*                          HISTORY WRAPPER                                *)
(***************************************************************************)
MaxHistory == 3
MaxOps == 4
HInitial == 0

\* history.splice(start): keeps the first `start` elements
SpliceFrom(s, start) == SubSeq(s, 1, IF start < Len(s) THEN start ELSE Len(s))

\* history.splice(0, n): drops the first n elements
DropFront(s, n) == SubSeq(s, n + 1, Len(s))

\* history[i] with a 0-based index; out of range reads undefined
HistAt(s, i) == IF i >= 0 /\ i < Len(s) THEN s[i + 1] ELSE Undefined

\* the wrapped cell's pipeline: empty, [(v, next) => next(Math.min(v, MaxVal - 1))],
\* or a validator that throws on MaxVal
Middlewares == {"none", "clamp", "validator"}

\* processMiddleware: throws on undefined, and when the validator throws
BaseSetThrows(v) == v = Undefined \/ (hMw = "validator" /\ v = MaxVal)

\* chunk.set on the wrapped cell: the value after the call
BaseSet(cur, v) ==
    IF BaseSetThrows(v) THEN cur
    ELSE IF hMw = "clamp" /\ v > MaxVal - 1 THEN MaxVal - 1 ELSE v

canUndo == currentIndex > 0
canRedo == currentIndex < Len(history) - 1

\* the observer keeps the first MaxOps calls exactly, and forgets longer runs
TooMany == <<<<"more", 0>>>>
Record(op) ==
    IF hOps # TooMany /\ Len(hOps) < MaxOps THEN Append(hOps, op) ELSE TooMany

\* lines 53-58: the size limit
HLimitNoEvict(pushed) == pushed
HLimit(pushed) ==
    IF Len(pushed) > MaxHistory
    THEN DropFront(pushed, Len(pushed) - MaxHistory)
    ELSE pushed

\* line 49: history.splice(currentIndex + 1)
HTruncateKeepAll(s, idx) == s
HTruncate(s, idx) == SpliceFrom(s, idx + 1)

HSet(v) ==
    /\ UNCHANGED <<notH, hMw>>
    /\ hOps' = Record(<<"set", v>>)
    /\ IF isHistoryAction
       THEN /\ hBase' = BaseSet(hBase, v)
            /\ UNCHANGED <<history, currentIndex, isHistoryAction>>
       ELSE LET pushed == Append(HTruncate(history, currentIndex), v)
                kept == HLimit(pushed)
            IN /\ history' = kept
               /\ currentIndex' = Len(kept) - 1
               /\ hBase' = BaseSet(hBase, v)
               /\ UNCHANGED isHistoryAction

\* undo/redo: move the cursor, write history[currentIndex] through set, which
\* (isHistoryAction being true) only calls baseChunk.set; a throwing
\* baseChunk.set leaves isHistoryAction true (there is no try/finally)
HMove(to) ==
    LET v == HistAt(history, to)
    IN /\ currentIndex' = to
       /\ hBase' = BaseSet(hBase, v)
       /\ isHistoryAction' = BaseSetThrows(v)
       /\ UNCHANGED history

HUndo ==
    /\ UNCHANGED <<notH, hMw>>
    /\ hOps' = Record(<<"undo", 0>>)
    /\ IF canUndo THEN HMove(currentIndex - 1)
       ELSE UNCHANGED <<history, currentIndex, isHistoryAction, hBase>>

HRedo ==
    /\ UNCHANGED <<notH, hMw>>
    /\ hOps' = Record(<<"redo", 0>>)
    /\ IF canRedo THEN HMove(currentIndex + 1)
       ELSE UNCHANGED <<history, currentIndex, isHistoryAction, hBase>>

HClearHistory ==
    /\ UNCHANGED <<notH, hMw>>
    /\ hOps' = Record(<<"clearHistory", 0>>)
    /\ history' = <<hBase>>
    /\ currentIndex' = 0
    /\ UNCHANGED <<isHistoryAction, hBase>>

HDestroy ==
    /\ UNCHANGED <<notH, hMw>>
    /\ hOps' = Record(<<"destroy", 0>>)
    /\ history' = <<>>
    /\ hBase' = HInitial
    /\ UNCHANGED <<currentIndex, isHistoryAction>>

\* withHistory(chunk(HInitial, middleware))
WithHistory(mw) ==
    /\ history = <<HInitial>>
    /\ currentIndex = 0
    /\ isHistoryAction = FALSE
    /\ hBase = HInitial
    /\ hOps = <<>>
    /\ hMw = mw

InitH == WithHistory("none")
InitHMiddleware == \E mw \in Middlewares : WithHistory(mw)

NextH ==
    \/ \E v \in Vals : HSet(v)
    \/ HUndo
    \/ HRedo
    \/ HClearHistory
    \/ HDestroy

(***************************************************************************)
(*                     CELL AND BATCH SCHEDULER                            *)
(***************************************************************************)
NCells == 2
NSubs == 1
MaxCellVal == 1
MaxDepth == 2
CountCap == 2
MaxLeft == 2
CInitial == 0

Cells == 1..NCells
Subs == 1..NSubs
CellVals == 0..MaxCellVal

Range(s) == {s[i] : i \in 1..Len(s)}
\* Set.add: a member keeps its place, a new element goes last
SetAddMovingLast(s, x) == Append(SelectSeq(s, LAMBDA e : e # x), x)
SetAdd(s, x) == IF x \in Range(s) THEN s ELSE Append(s, x)
\* Set.delete
SetDelete(s, x) == SelectSeq(s, LAMBDA e : e # x)

Bump(n) == IF n < CountCap THEN n + 1 ELSE n

ObsInit ==
    [notified |-> [c \in Cells |-> [s \in Subs |-> 0]],
     lastVal |-> [c \in Cells |-> [s \in Subs |-> Undefined]],
     early |-> FALSE,
     flushes |-> 0,
     phase |-> "idle",
     onlySets |-> TRUE,
     sawThrow |-> FALSE,
     writes |-> [c \in Cells |-> 0],
     first |-> <<>>,
     lastWrite |-> 0,
     order |-> <<>>]

\* the engine's state as one record, so that a call can be followed through
\* the calls it makes
Eng ==
    [value |-> value, subscribers |-> subscribers, isBatching |-> isBatching,
     dirtyChunks |-> dirtyChunks, chunkRegistry |-> chunkRegistry,
     batchDepth |-> batchDepth, batchQueue |-> batchQueue, isDirty |-> isDirty,
     dead |-> dead, ghost |-> ghost, obs |-> obs, threw |-> FALSE]

Commit(e) ==
    /\ value' = e.value
    /\ subscribers' = e.subscribers
    /\ isBatching' = e.isBatching
    /\ dirtyChunks' = e.dirtyChunks
    /\ chunkRegistry' = e.chunkRegistry
    /\ batchDepth' = e.batchDepth
    /\ batchQueue' = e.batchQueue
    /\ isDirty' = e.isDirty
    /\ dead' = e.dead
    /\ ghost' = e.ghost
    /\ obs' = e.obs

\* subscribers.forEach(subscriber => subscriber(value)); `open` tells whether
\* a batch callback is still running when the callbacks are invoked; a
\* callback that throws ends the forEach and the exception leaves it
Notify(e, c, open) ==
    LET throws == c = thrower /\ e.subscribers[c] # <<>>
        ss == IF throws THEN {Head(e.subscribers[c])} ELSE Range(e.subscribers[c])
    IN [e EXCEPT
          !.threw = throws,
          !.obs.notified[c] = [s \in Subs |-> IF s \in ss THEN Bump(@[s]) ELSE @[s]],
          !.obs.lastVal[c] = [s \in Subs |-> IF s \in ss THEN e.value[c] ELSE @[s]],
          !.obs.early = @ \/ (open /\ ss # {}),
          !.ghost = @ \/ (ss \cap e.dead[c] # {}),
          !.obs.order = IF ~open /\ ss # {} THEN Append(@, c) ELSE @]

\* core/core.ts notifySubscribers
NotifySubscribersNoDeferR(e, c, open) == Notify(e, c, open)
NotifySubscribersR(e, c, open) ==
    IF e.subscribers[c] = <<>> THEN e
    ELSE IF e.isBatching THEN [e EXCEPT !.dirtyChunks = SetAdd(@, c)]
    ELSE Notify(e, c, open)

\* src/core.ts notifySubscribers
NotifySubscribersQ(e, c, open) ==
    IF e.batchDepth > 0
    THEN IF ~e.isDirty[c]
         THEN [e EXCEPT !.isDirty[c] = TRUE, !.batchQueue = Append(@, c)]
         ELSE e
    ELSE Notify(e, c, open)

NotifySubscribers(e, c, open) ==
    IF impl = "registry" THEN NotifySubscribersR(e, c, open)
    ELSE NotifySubscribersQ(e, c, open)

\* set, with an empty middleware pipeline and a primitive value
ChunkSet(e, c, v, open) ==
    IF v # e.value[c]
    THEN NotifySubscribers([e EXCEPT !.value[c] = v], c, open)
    ELSE e

\* reset: core/core.ts goes through notifySubscribers, src/core.ts calls the
\* subscribers itself
ChunkReset(e, c, open) ==
    LET e1 == [e EXCEPT !.value[c] = CInitial]
    IN IF impl = "registry" THEN NotifySubscribersR(e1, c, open)
       ELSE Notify(e1, c, open)

\* a destroy() that leaves the subscribers in place
ChunkDestroyKeepingSubscribers(e, c) ==
    LET e1 == [e EXCEPT !.value[c] = CInitial]
    IN IF impl = "registry"
       THEN [e1 EXCEPT !.dirtyChunks = SetDelete(@, c),
                       !.chunkRegistry = @ \ {c}]
       ELSE e1
\* destroy(): core/core.ts lines 305-310, src/core.ts lines 118-125
ChunkDestroy(e, c) ==
    LET e1 == [e EXCEPT !.subscribers[c] = <<>>, !.value[c] = CInitial]
    IN IF impl = "registry"
       THEN [e1 EXCEPT !.dirtyChunks = SetDelete(@, c),
                       !.chunkRegistry = @ \ {c}]
       ELSE e1

\* subscribe: adds the callback and calls it with the current value
ChunkSubscribe(e, c, s) ==
    [e EXCEPT !.subscribers[c] = SetAdd(@, s),
              !.obs.lastVal[c][s] = e.value[c]]

ChunkUnsubscribe(e, c, s) == [e EXCEPT !.subscribers[c] = SetDelete(@, s)]

RECURSIVE FlushChunksR(_, _)
\* chunks.forEach(id => { const chunk = chunkRegistry.get(id); if (chunk) chunk.notify() })
FlushChunksR(e, chunks) ==
    IF chunks = <<>> \/ e.threw THEN e
    ELSE LET c == Head(chunks)
             e1 == IF c \in e.chunkRegistry THEN Notify(e, c, FALSE) ELSE e
         IN FlushChunksR(e1, Tail(chunks))

RECURSIVE FlushQueueQ(_, _)
\* batchQueue.forEach(update => update())
FlushQueueQ(e, queue) ==
    IF queue = <<>> \/ e.threw THEN e
    ELSE LET c == Head(queue)
             n == Notify(e, c, FALSE)
             e1 == IF e.isDirty[c]
                   THEN IF n.threw THEN n ELSE [n EXCEPT !.isDirty[c] = FALSE]
                   ELSE e
         IN FlushQueueQ(e1, Tail(queue))

\* the finally block of core/core.ts batch
BatchFinallyEveryExitR(e, was) ==
    [FlushChunksR([e EXCEPT !.isBatching = FALSE, !.dirtyChunks = <<>>],
                  e.dirtyChunks)
       EXCEPT !.obs.flushes = Bump(@)]
BatchFinallyR(e, was) ==
    IF ~was
    THEN [FlushChunksR([e EXCEPT !.isBatching = FALSE, !.dirtyChunks = <<>>],
                       e.dirtyChunks)
            EXCEPT !.obs.flushes = Bump(@)]
    ELSE e

\* the finally block of src/core.ts batch
BatchFinallyEveryExitQ(e) ==
    LET e1 == [e EXCEPT !.batchDepth = @ - 1]
    IN [FlushQueueQ(e1, e1.batchQueue)
          EXCEPT !.batchQueue = <<>>, !.obs.flushes = Bump(@)]
BatchFinallyQ(e) ==
    LET e1 == [e EXCEPT !.batchDepth = @ - 1]
        e2 == FlushQueueQ(e1, e1.batchQueue)
    IN IF e1.batchDepth = 0
       THEN [e2 EXCEPT !.batchQueue = IF e2.threw THEN @ ELSE <<>>,
                       !.obs.flushes = Bump(@)]
       ELSE e1

\* a call made by the program outside any batch starts a new observation
TopLevel == frames = <<>>
Fresh(e) == IF TopLevel THEN [e EXCEPT !.obs = ObsInit] ELSE e
NotASet(e) == IF TopLevel THEN e ELSE [e EXCEPT !.obs.onlySets = FALSE]

\* batch(callback), up to the call of callback
\* (closures a failed flush left in batchQueue are counted up to MaxLeft)
BatchBegin ==
    /\ ~exc
    /\ Len(frames) < MaxDepth
    /\ TopLevel => Len(batchQueue) < MaxLeft
    /\ frames' = Append(frames, [wasBatchingBefore |-> isBatching])
    /\ LET e == Fresh(Eng)
       IN Commit([e EXCEPT !.isBatching = IF impl = "registry" THEN TRUE ELSE @,
                           !.batchDepth = IF impl = "queue" THEN @ + 1 ELSE @,
                           !.obs.phase = "open"])
    /\ UNCHANGED <<impl, thrower, exc, notB>>

\* try { callback() } finally { ... }: the finally block runs however callback
\* ends, and an exception that left callback goes on to the caller of batch
BatchUnwindNoFinally(e, was, threw) ==
    IF threw THEN e
    ELSE IF impl = "registry" THEN BatchFinallyR(e, was) ELSE BatchFinallyQ(e)
BatchUnwind(e, was, threw) ==
    IF impl = "registry" THEN BatchFinallyR(e, was) ELSE BatchFinallyQ(e)

\* callback returns (threw = FALSE) or an exception leaves it (threw = TRUE):
\* one it throws itself, or one that came out of a nested batch and that it
\* does not catch
BatchExit(threw) ==
    /\ frames # <<>>
    /\ threw \/ ~exc
    /\ LET f == frames[Len(frames)]
           rest == SubSeq(frames, 1, Len(frames) - 1)
           e1 == BatchUnwind(Eng, f.wasBatchingBefore, threw)
           e2 == [e1 EXCEPT !.obs.sawThrow = @ \/ threw]
           e3 == IF rest = <<>> THEN [e2 EXCEPT !.obs.phase = "closed"] ELSE e2
       IN /\ frames' = rest
          /\ Commit(e3)
          /\ exc' = (threw \/ e1.threw)
    /\ UNCHANGED <<impl, thrower, notB>>

\* the code around a batch call catches what came out of it: an enclosing
\* callback, or the program that made the outermost call
Catch ==
    /\ exc
    /\ exc' = FALSE
    /\ UNCHANGED <<impl, thrower, value, subscribers, isBatching, dirtyChunks, chunkRegistry,
                   batchDepth, batchQueue, isDirty, frames, dead, ghost,
                   obs, notB>>

BSet(c, v) ==
    /\ ~exc
    /\ LET e == Fresh(Eng)
           changed == v # e.value[c]
           e1 == ChunkSet(e, c, v, ~TopLevel)
       IN Commit([e1 EXCEPT
                     !.obs.writes[c] = IF changed /\ ~TopLevel THEN Bump(@) ELSE @,
                     !.obs.first = IF changed /\ ~TopLevel /\ c \notin Range(@)
                                   THEN Append(@, c) ELSE @,
                     !.obs.lastWrite = IF changed /\ ~TopLevel THEN c ELSE @])
    /\ UNCHANGED <<impl, thrower, frames, exc, notB>>

BReset(c) ==
    /\ ~exc
    /\ Commit(ChunkReset(NotASet(Fresh(Eng)), c, ~TopLevel))
    /\ UNCHANGED <<impl, thrower, frames, exc, notB>>

BSubscribe(c, s) ==
    /\ ~exc
    /\ s \notin Range(subscribers[c])
    /\ Commit([ChunkSubscribe(NotASet(Fresh(Eng)), c, s) EXCEPT !.dead[c] = @ \ {s}])
    /\ UNCHANGED <<impl, thrower, frames, exc, notB>>

\* the function subscribe returned; a callback that threw when subscribe
\* called it left the caller without that function
BUnsubscribe(c, s) ==
    /\ ~exc
    /\ c # thrower
    /\ s \in Range(subscribers[c])
    /\ Commit(ChunkUnsubscribe(NotASet(Fresh(Eng)), c, s))
    /\ UNCHANGED <<impl, thrower, frames, exc, notB>>

BDestroy(c) ==
    /\ ~exc
    /\ LET e == NotASet(Fresh(Eng))
       IN Commit([ChunkDestroy(e, c) EXCEPT
                     !.dead[c] = @ \cup Range(e.subscribers[c])])
    /\ UNCHANGED <<impl, thrower, frames, exc, notB>>

CellsWith(i, t) ==
    /\ impl = i
    /\ thrower = t
    /\ value = [c \in Cells |-> CInitial]
    /\ subscribers = [c \in Cells |-> <<>>]
    /\ isBatching = FALSE
    /\ dirtyChunks = <<>>
    /\ chunkRegistry = Cells
    /\ batchDepth = 0
    /\ batchQueue = <<>>
    /\ isDirty = [c \in Cells |-> FALSE]
    /\ frames = <<>>
    /\ exc = FALSE
    /\ dead = [c \in Cells |-> {}]
    /\ ghost = FALSE
    /\ obs = ObsInit

InitB == \E i \in {"registry", "queue"} : CellsWith(i, 0)
IdleB == CellsWith("registry", 0)
InitBThrowing == \E i \in {"registry", "queue"} : CellsWith(i, 1)

NextB ==
    \/ BatchBegin
    \/ \E threw \in BOOLEAN : BatchExit(threw)
    \/ Catch
    \/ \E c \in Cells, v \in CellVals : BSet(c, v)
    \/ \E c \in Cells : BReset(c)
    \/ \E c \in Cells, s \in Subs : BSubscribe(c, s)
    \/ \E c \in Cells, s \in Subs : BUnsubscribe(c, s)
    \/ \E c \in Cells : BDestroy(c)

(***************************************************************************)
(*                    COMPUTED VALUES: THE DIAMOND                         *)
(* A is a cell, B and C are computeds reading A, D is a computed reading   *)
(* B and C (tests/core/diamond-dep.test.ts).  The computeds are those of   *)
(* src/unnamed/part_009; the cell they are built on (get recording into    *)
(* the tracking scope, subscribe that does not call back) is the one the   *)
(* specification describes in 4.1 and 4.3.                                 *)
(***************************************************************************)
MaxA == 2
AInitial == 1
AVals == 0..MaxA
Comps == {"B", "C", "D"}
Nodes == {"A"} \cup Comps

\* the compute functions of the test: root * 2, root + 5, `${left}-${right}`
FB(a) == a * 2
FC(a) == a + 5
FD(b, c) == <<b, c>>

\* what trackDependencies reports for each compute function: the cells whose
\* get() runs, in order (for a computed, its inner computedChunk)
Deps(x) == IF x = "D" THEN <<"B", "C">> ELSE <<"A">>

DepCallback(x) == [kind |-> "dep", of |-> x]
ExtCallback(n) == [kind |-> "ext", of |-> n]

Graph ==
    [val |-> dVal, subs |-> dSubs, cached |-> dCached, dirty |-> dDirty,
     count |-> dCount, log |-> dLog, evals |-> dEvals, noted |-> dNoted,
     runs |-> dRuns, cause |-> "recompute"]

CommitGraph(g) ==
    /\ dVal' = g.val
    /\ dSubs' = g.subs
    /\ dCached' = g.cached
    /\ dDirty' = g.dirty
    /\ dCount' = g.count
    /\ dLog' = g.log
    /\ dEvals' = g.evals
    /\ dNoted' = g.noted
    /\ dRuns' = g.runs

RECURSIVE Recompute(_, _), EvalFn(_, _), ComputedGet(_, _), CellSet(_, _, _),
          NotifyFrom(_, _, _), DepChanged(_, _)

\* the callback a computed registers on each of its dependencies
\* (part_009 lines 38-45 and 63-70)
DepChangedAlwaysLazy(g, x) ==
    [g EXCEPT !.dirty[x] = TRUE,
              !.noted = @ \cup {[x |-> x, count |-> g.count[x]]}]
DepChanged(g, x) ==
    LET g1 == [g EXCEPT !.dirty[x] = TRUE,
                        !.noted = @ \cup {[x |-> x, count |-> g.count[x]]}]
    IN IF g1.count[x] > 0 THEN Recompute([g1 EXCEPT !.cause = "notify"], x) ELSE g1

\* subscribers.forEach(subscriber => subscriber(value)), from the i-th on
NotifyFrom(g, n, i) ==
    IF i > Len(g.subs[n]) THEN g
    ELSE LET cb == g.subs[n][i]
             g1 == IF cb.kind = "dep"
                   THEN DepChanged(g, cb.of)
                   ELSE [g EXCEPT !.log = Append(@, <<n, g.val[n]>>)]
         IN NotifyFrom(g1, n, i + 1)

\* set of the underlying cell: change check, then notification
CellSet(g, n, v) ==
    IF v # g.val[n] THEN NotifyFrom([g EXCEPT !.val[n] = v], n, 1) ELSE g

\* get() of a computed (part_009 lines 74-77)
ComputedGet(g, x) ==
    LET g1 == IF g.dirty[x] THEN Recompute([g EXCEPT !.cause = "get"], x) ELSE g
    IN [g |-> g1, v |-> g1.val[x]]

\* trackDependencies(computeFn): the function's reads, one after the other
EvalFn(g, x) ==
    IF x = "B" THEN [g |-> g, v |-> FB(g.val["A"])]
    ELSE IF x = "C" THEN [g |-> g, v |-> FC(g.val["A"])]
    ELSE LET rb == ComputedGet(g, "B")
             rc == ComputedGet(rb.g, "C")
             v == FD(rb.v, rc.v)
         IN [g |-> [rc.g EXCEPT !.evals = Append(@, v)], v |-> v]

\* _recompute (part_009 lines 26-59); the dependency lists of the diamond do
\* not change, so the re-subscription branch is never taken
Recompute(g, x) ==
    IF ~g.dirty[x] THEN g
    ELSE LET r == EvalFn([g EXCEPT !.dirty[x] = FALSE,
                                   !.runs = @ \cup {<<x, g.cause>>}], x)
         IN IF r.v # r.g.cached[x]
            THEN CellSet([r.g EXCEPT !.cached[x] = r.v], x, r.v)
            ELSE r.g

Observe(g) == [g EXCEPT !.log = <<>>, !.evals = <<>>, !.noted = {}, !.runs = {}]

\* nothing is pending: every computed is clean and holds its function's value
Settled ==
    /\ \A x \in Comps : ~dDirty[x]
    /\ dCached["B"] = FB(dVal["A"])
    /\ dCached["C"] = FC(dVal["A"])
    /\ dCached["D"] = FD(dCached["B"], dCached["C"])

Called(op, v) ==
    [op |-> op, changed |-> v # dVal["A"], old |-> dVal["A"], settled |-> Settled]

\* A.set(v)
DSet(v) ==
    /\ CommitGraph(CellSet(Observe(Graph), "A", v))
    /\ dLast' = Called("set", v)
    /\ UNCHANGED notD

\* x.get()
DGet(x) ==
    /\ CommitGraph(ComputedGet(Observe(Graph), x).g)
    /\ dLast' = Called("get", dVal["A"])
    /\ UNCHANGED notD

\* x.recompute() (part_009 lines 91-94)
DRecompute(x) ==
    /\ CommitGraph(Recompute([Observe(Graph) EXCEPT !.dirty[x] = TRUE], x))
    /\ dLast' = Called("recompute", dVal["A"])
    /\ UNCHANGED notD

\* x.subscribe(callback) (part_009 lines 79-82)
DSubscribe(x) ==
    /\ ExtCallback(x) \notin Range(dSubs[x])
    /\ CommitGraph([Observe(Graph) EXCEPT !.subs[x] = Append(@, ExtCallback(x)),
                                          !.count[x] = @ + 1])
    /\ dLast' = Called("subscribe", dVal["A"])
    /\ UNCHANGED notD

\* the function subscribe returned (part_009 lines 83-86)
DUnsubscribe(x) ==
    /\ ExtCallback(x) \in Range(dSubs[x])
    /\ CommitGraph([Observe(Graph) EXCEPT
                       !.count[x] = @ - 1,
                       !.subs[x] = SelectSeq(@, LAMBDA cb : cb # ExtCallback(x))])
    /\ dLast' = Called("unsubscribe", dVal["A"])
    /\ UNCHANGED notD

\* const left = computed(...), right = computed(...), final = computed(...)
InitD ==
    /\ dVal = [n \in Nodes |->
                 IF n = "A" THEN AInitial
                 ELSE IF n = "B" THEN FB(AInitial)
                 ELSE IF n = "C" THEN FC(AInitial)
                 ELSE FD(FB(AInitial), FC(AInitial))]
    /\ dSubs = [n \in Nodes |->
                  IF n = "A" THEN <<DepCallback("B"), DepCallback("C")>>
                  ELSE IF n = "D" THEN <<>>
                  ELSE <<DepCallback("D")>>]
    /\ dCached = [x \in Comps |->
                    IF x = "B" THEN FB(AInitial)
                    ELSE IF x = "C" THEN FC(AInitial)
                    ELSE FD(FB(AInitial), FC(AInitial))]
    /\ dDirty = [x \in Comps |-> FALSE]
    /\ dCount = [x \in Comps |-> 0]
    /\ dLog = <<>>
    /\ dEvals = <<>>
    /\ dNoted = {}
    /\ dRuns = {}
    /\ dLast = [op |-> "init", changed |-> FALSE, old |-> AInitial, settled |-> TRUE]

NextD ==
    \/ \E v \in AVals : DSet(v)
    \/ \E x \in Comps : DGet(x)
    \/ \E x \in Comps : DRecompute(x)
    \/ \E x \in Comps : DSubscribe(x)
    \/ \E x \in Comps : DUnsubscribe(x)

(***************************************************************************)
(*                            THE ASYNC CELL                               *)
(* asyncChunk in its two versions: "query" is src/src/query/async-chunk.ts *)
(* and "core" is src/src/core/asyncChunk.ts.  The synchronous part of an   *)
(* async function (up to its first await) runs inside the action that      *)
(* calls it; each await is a separate action that resumes the function.    *)
(* Pagination is modelled in its default mode, 'replace'.                  *)
(***************************************************************************)
MaxFetches == 2
MaxRetry == 2
MaxParam == 1
MaxPage == 3
PageSize == 5

NoParams == 0
ParamVals == 1..MaxParam
InitialPage == 1
Pages == InitialPage..MaxPage

\* the cell's data: initialData (null), a fetcher's result, a mutator's result
InitialData == [src |-> "null", id |-> 0]
Fetched(id) == [src |-> "fetch", id |-> id]
Mutated == [src |-> "mutate", id |-> 0]

\* const initialState = { loading: enabled && !expectsParams, error: null, ... }
InitialState(cfg) ==
    [loading |-> cfg.enabled /\ ~cfg.expectsParams,
     error |-> "null",
     data |-> InitialData,
     lastFetched |-> "undefined",
     page |-> IF cfg.paginated THEN InitialPage ELSE 0,
     hasMore |-> "undefined",
     items |-> 0]

Async ==
    [state |-> aState, currentParams |-> currentParams, flights |-> aFlights,
     next |-> aNext, intervalId |-> intervalId, cacheTimeoutId |-> cacheTimeoutId,
     last |-> aLast, newest |-> aNewest, cleaned |-> cleaned,
     sawLoading |-> FALSE, paging |-> aPaging]

CommitAsync(e) ==
    /\ aState' = e.state
    /\ currentParams' = e.currentParams
    /\ aFlights' = e.flights
    /\ aNext' = e.next
    /\ intervalId' = e.intervalId
    /\ cacheTimeoutId' = e.cacheTimeoutId
    /\ aLast' = e.last
    /\ aNewest' = e.newest
    /\ cleaned' = e.cleaned
    /\ sawLoading' = e.sawLoading
    /\ aPaging' = e.paging
    /\ UNCHANGED aCfg

Event(ev, ch) ==
    [ev |-> ev, id |-> ch.id, attempts |-> ch.attempts, fails |-> ch.fails,
     budget |-> ch.budget, onError |-> ch.onError, before |-> ch.before]

NoChain ==
    [id |-> 0, attempts |-> 0, fails |-> 0, budget |-> 0, onError |-> 0,
     before |-> InitialData]
Other == Event("other", NoChain)
\* a fetchData call that returns before calling the fetcher: a retry that
\* ends there, or a new call ended by the parameter or the freshness test
Stopped(ch, why) == IF ch.attempts > 0 THEN Event("stopped", ch) ELSE Event(why, NoChain)
NewChain(e, retries) ==
    [id |-> e.next, attempts |-> 0, fails |-> 0, budget |-> retries, onError |-> 0,
     before |-> e.state.data]

\* isStale(): lastFetched is "fresh" while less than staleTime has passed
IsStale(e) ==
    IF aCfg.impl = "query"
    THEN e.state.lastFetched = "undefined" \/ ~aCfg.stalePositive
            \/ e.state.lastFetched = "old"
    ELSE e.state.lastFetched = "undefined" \/ e.state.lastFetched = "old"

\* core: hasValidParams(currentParams)
HasValidParams(p) == ~aCfg.expectsParams \/ p # NoParams

\* a freshness test that forgets the force flag
FreshEnoughUnforced(e, force) ==
    /\ ~IsStale(e)
    /\ e.state.data # InitialData
    /\ aCfg.impl = "core" => aCfg.stalePositive

\* the freshness test that ends fetchData without fetching
FreshEnough(e, force) ==
    /\ ~force
    /\ ~IsStale(e)
    /\ e.state.data # InitialData
    /\ aCfg.impl = "core" => aCfg.stalePositive

\* fetchData(params, retries, force), up to the await of the fetcher's promise
FetchData(e, params, retries, force, ch) ==
    IF ~aCfg.enabled THEN e
    ELSE LET e1 == IF params # NoParams
                   THEN [e EXCEPT !.currentParams = params] ELSE e
         IN IF aCfg.impl = "core" /\ ~HasValidParams(e1.currentParams)
            THEN [e1 EXCEPT !.state.loading = FALSE, !.last = Stopped(ch, "invalid")]
            ELSE IF FreshEnough(e1, force)
            THEN [e1 EXCEPT !.last = Stopped(ch, "fresh")]
            ELSE LET c1 == [ch EXCEPT !.attempts = @ + 1]
                     fl == [id |-> c1.id, attempts |-> c1.attempts,
                            fails |-> c1.fails, budget |-> c1.budget,
                            onError |-> c1.onError, before |-> c1.before,
                            params |-> params, retries |-> retries,
                            force |-> force, phase |-> "fetch",
                            page |-> e1.state.page,
                            base |-> e1.state.items]
                 IN [e1 EXCEPT !.state.loading = TRUE,
                               !.sawLoading = TRUE,
                               !.state.error = "null",
                               !.flights = @ \cup {fl},
                               !.next = IF c1.id = @ THEN @ + 1 ELSE @,
                               !.last = Other]

\* a call of fetchData that is not a retry
StartFetch(e, params, retries, force) ==
    FetchData(e, params, retries, force, NewChain(e, retries))

ChainOf(f) ==
    [id |-> f.id, attempts |-> f.attempts, fails |-> f.fails, budget |-> f.budget,
     onError |-> f.onError, before |-> f.before]

\* a try block that stores the fetched page alone
Replacing(f) == IF aCfg.accumulate THEN PageSize ELSE 0

\* the length of the array the try block stores in accumulate mode: the
\* fetched page appended to state.data as fetchData found it before the await
Accumulated(f) == IF aCfg.accumulate THEN f.base + PageSize ELSE 0

\* the fetcher's promise resolves: the rest of the try block
ResolveUnlessSuperseded(e, f, hasMore) ==
    IF f.id < e.next - 1
    THEN [e EXCEPT !.flights = @ \ {f}, !.last = Other]
    ELSE [e EXCEPT !.state = [loading |-> FALSE,
                              error |-> "null",
                              data |-> Fetched(f.id),
                              lastFetched |-> IF aCfg.stalePositive THEN "fresh" ELSE "old",
                              page |-> IF aCfg.paginated THEN f.page ELSE 0,
                              hasMore |-> IF aCfg.paginated THEN hasMore ELSE "undefined",
                              items |-> Accumulated(f)],
                   !.paging.done = IF e.paging.only THEN @ + 1 ELSE @,
                   !.cacheTimeoutId = TRUE,
                   !.flights = @ \ {f},
                   !.newest = IF f.id > @ THEN f.id ELSE @,
                   !.last = Event("success", ChainOf(f))]
Resolve(e, f, hasMore) ==
    [e EXCEPT !.state = [loading |-> FALSE,
                         error |-> "null",
                         data |-> Fetched(f.id),
                         lastFetched |-> IF aCfg.stalePositive THEN "fresh" ELSE "old",
                         page |-> IF aCfg.paginated THEN f.page ELSE 0,
                         hasMore |-> IF aCfg.paginated THEN hasMore ELSE "undefined",
                         items |-> Accumulated(f)],
              !.paging.done = IF e.paging.only THEN @ + 1 ELSE @,
              !.cacheTimeoutId = TRUE,
              !.flights = @ \ {f},
              !.newest = IF f.id > @ THEN f.id ELSE @,
              !.last = Event("success", ChainOf(f))]

\* the fetcher's promise rejects: the catch block, up to its await
RejectGivingUp(e, f) ==
    [e EXCEPT !.state.loading = FALSE,
              !.state.error = "E",
              !.flights = @ \ {f},
              !.last = Event("error", [ChainOf(f) EXCEPT !.fails = @ + 1,
                                                         !.onError = @ + 1])]
\* a catch block that calls onError on every failed attempt
RejectReportingEach(e, f) ==
    LET f1 == [f EXCEPT !.fails = @ + 1, !.onError = @ + 1]
    IN IF f.retries > 0
       THEN [e EXCEPT !.flights = (@ \ {f}) \cup {[f1 EXCEPT !.phase = "delay"]},
                      !.last = Other]
       ELSE [e EXCEPT !.state.loading = FALSE,
                      !.state.error = "E",
                      !.flights = @ \ {f},
                      !.last = Event("error", ChainOf(f1))]
RejectLeavingLoading(e, f) ==
    LET f1 == [f EXCEPT !.fails = @ + 1]
    IN IF f.retries > 0
       THEN [e EXCEPT !.flights = (@ \ {f}) \cup {[f1 EXCEPT !.phase = "delay"]},
                      !.last = Other]
       ELSE [e EXCEPT !.state.error = "E",
                      !.flights = @ \ {f},
                      !.last = Event("error", [ChainOf(f1) EXCEPT !.onError = @ + 1])]
Reject(e, f) ==
    LET f1 == [f EXCEPT !.fails = @ + 1]
    IN IF f.retries > 0
       THEN [e EXCEPT !.flights = (@ \ {f}) \cup {[f1 EXCEPT !.phase = "delay"]},
                      !.last = Other]
       ELSE [e EXCEPT !.state.loading = FALSE,
                      !.state.error = "E",
                      !.flights = @ \ {f},
                      !.last = Event("error", [ChainOf(f1) EXCEPT !.onError = @ + 1])]

\* the retry delay elapses: return fetchData(params, retries - 1, force)
Retry(e, f) ==
    FetchData([e EXCEPT !.flights = @ \ {f}], f.params, f.retries - 1, f.force,
              ChainOf(f))

\* cleanup()
Cleanup(e) == [e EXCEPT !.intervalId = FALSE, !.cacheTimeoutId = FALSE]

\* clearCache(), the cache timer's callback
ClearCache(e) ==
    [e EXCEPT !.state.data = InitialData, !.state.lastFetched = "undefined",
              !.state.items = 0,
              !.cacheTimeoutId = FALSE]

\* reset()
Reset(e) ==
    LET starts == IF aCfg.impl = "query"
                  THEN aCfg.enabled /\ ~aCfg.expectsParams ELSE aCfg.enabled
        e1 == [Cleanup(e) EXCEPT
                  !.currentParams = IF aCfg.impl = "query" THEN NoParams ELSE @,
                  !.state = [InitialState(aCfg) EXCEPT !.loading = starts],
                  !.sawLoading = starts,
                  !.last = Other]
        e2 == IF starts THEN StartFetch(e1, NoParams, aCfg.retryCount, FALSE) ELSE e1
    IN IF starts /\ aCfg.interval THEN [e2 EXCEPT !.intervalId = TRUE] ELSE e2

\* setParams(params)
SetParams(e, p) ==
    LET e1 == [e EXCEPT !.currentParams = p, !.last = Other]
    IN IF aCfg.impl = "query"
       THEN IF aCfg.enabled THEN StartFetch(e1, p, aCfg.retryCount, TRUE) ELSE e1
       ELSE IF aCfg.enabled /\ HasValidParams(p)
            THEN StartFetch(e1, p, aCfg.retryCount, FALSE) ELSE e1

\* nextPage, prevPage, goToPage, resetPagination: write the page, then
\* fetchData(currentParams, retryCount, true)
TurnPage(e, page) ==
    StartFetch([e EXCEPT !.state.page = page, !.last = Other],
               e.currentParams, aCfg.retryCount, TRUE)

\* the engine as an operation of the caller finds it
NotPaging == [only |-> FALSE, calls |-> 0, apart |-> FALSE, done |-> 0]
Call == [Async EXCEPT !.last = Other, !.cleaned = FALSE, !.paging = NotPaging]

\* fetches are numbered up to MaxFetches; a cell in accumulate mode whose
\* caller has only turned pages gets one more, for its initial fetch
CanFetch ==
    aNext <= IF aCfg.accumulate /\ aPaging.only THEN MaxFetches + 1 ELSE MaxFetches
ParamArgs == IF aCfg.expectsParams THEN {NoParams} \cup ParamVals ELSE {NoParams}

AReload(p) ==
    /\ CanFetch
    /\ CommitAsync(StartFetch(Call, p, aCfg.retryCount, TRUE))
    /\ UNCHANGED notA

ARefresh(p) ==
    /\ CanFetch
    /\ CommitAsync(StartFetch(Call, p, aCfg.retryCount, FALSE))
    /\ UNCHANGED notA

ASetParams(p) ==
    /\ (aCfg.impl = "query" \/ HasValidParams(p)) => CanFetch
    /\ aCfg.expectsParams
    /\ aCfg.impl = "query" => p # NoParams
    /\ CommitAsync(SetParams(Call, p))
    /\ UNCHANGED notA

\* mutate(mutator)
AMutate ==
    /\ CommitAsync([Call EXCEPT !.state.data = Mutated])
    /\ UNCHANGED notA

AReset ==
    /\ CanFetch
    /\ CommitAsync(Reset(Call))
    /\ UNCHANGED notA

ACleanup ==
    /\ CommitAsync([Cleanup(Call) EXCEPT !.cleaned = TRUE])
    /\ UNCHANGED notA

\* the setInterval callback
AIntervalFire ==
    /\ intervalId
    /\ CanFetch
    /\ CommitAsync(IF aCfg.enabled
                   THEN StartFetch([Async EXCEPT !.last = Other,
                                                 !.paging = NotPaging],
                                   IF aCfg.impl = "query" THEN NoParams
                                   ELSE currentParams, 0, FALSE)
                   ELSE Async)
    /\ UNCHANGED notA

\* the cache timer fires
ACacheTimeout ==
    /\ cacheTimeoutId
    /\ CommitAsync([ClearCache(Async) EXCEPT !.last = Other,
                                             !.paging = NotPaging])
    /\ UNCHANGED notA

\* more than staleTime passes since lastFetched
ATimePasses ==
    /\ aState.lastFetched = "fresh"
    /\ CommitAsync([Async EXCEPT !.state.lastFetched = "old",
                                 !.last = Other])
    /\ UNCHANGED notA

AResolve(f, hasMore) ==
    /\ f.phase = "fetch"
    /\ CommitAsync(Resolve(Async, f, hasMore))
    /\ UNCHANGED notA

AReject(f) ==
    /\ f.phase = "fetch"
    /\ CommitAsync(Reject(Async, f))
    /\ UNCHANGED notA

ARetry(f) ==
    /\ f.phase = "delay"
    /\ CommitAsync(Retry(Async, f))
    /\ UNCHANGED notA

ANextPage ==
    /\ aCfg.paginated
    /\ CanFetch
    /\ aState.hasMore # "false"
    /\ aState.page < MaxPage
    /\ CommitAsync(TurnPage([Call EXCEPT !.paging =
                                 IF aPaging.only
                                 THEN [aPaging EXCEPT !.calls = @ + 1,
                                                      !.apart = @ /\ aFlights = {}]
                                 ELSE NotPaging],
                             aState.page + 1))
    /\ UNCHANGED notA

APrevPage ==
    /\ aCfg.paginated
    /\ CanFetch
    /\ aState.page > 1
    /\ CommitAsync(TurnPage(Call, aState.page - 1))
    /\ UNCHANGED notA

AGoToPage(page) ==
    /\ aCfg.paginated
    /\ CanFetch
    /\ page >= 1
    /\ CommitAsync(TurnPage(Call, page))
    /\ UNCHANGED notA

AResetPagination ==
    /\ aCfg.paginated
    /\ CanFetch
    /\ CommitAsync(TurnPage(IF aCfg.accumulate
                             THEN [Call EXCEPT !.state.data = InitialData,
                                               !.state.items = 0]
                             ELSE Call,
                             InitialPage))
    /\ UNCHANGED notA

HasMoreVals == {"undefined", "false"}

Configs ==
    {cfg \in [impl : {"query", "core"}, enabled : BOOLEAN, expectsParams : BOOLEAN,
              stalePositive : BOOLEAN, retryCount : 0..MaxRetry,
              interval : BOOLEAN, paginated : BOOLEAN, accumulate : {FALSE}] :
        cfg.paginated => cfg.impl = "query"}

\* pagination: { pageSize: 5, mode: 'accumulate' }
AccumulateConfigs ==
    {cfg \in [impl : {"query"}, enabled : {TRUE}, expectsParams : BOOLEAN,
              stalePositive : BOOLEAN, retryCount : 0..1, interval : BOOLEAN,
              paginated : {TRUE}, accumulate : {TRUE}] :
        /\ cfg.retryCount = 1 <=> cfg.expectsParams
        /\ cfg.interval <=> cfg.stalePositive
        /\ cfg.interval => ~cfg.expectsParams}

\* asyncChunk(fetcher, options): the state after the constructor returns
Construct(cfg) ==
    /\ aCfg = cfg
    /\ LET e0 == [state |-> InitialState(cfg), currentParams |-> NoParams,
                  flights |-> {}, next |-> 1,
                  intervalId |-> cfg.interval /\ cfg.enabled,
                  cacheTimeoutId |-> FALSE,
                  last |-> Other, newest |-> 0, cleaned |-> FALSE,
                  sawLoading |-> FALSE,
                  paging |-> IF cfg.accumulate
                             THEN [only |-> TRUE, calls |-> 0, apart |-> TRUE,
                                   done |-> 0]
                             ELSE NotPaging]
           e1 == IF cfg.enabled /\ ~cfg.expectsParams
                 THEN StartFetch(e0, NoParams, cfg.retryCount, FALSE) ELSE e0
       IN /\ aState = e1.state
          /\ currentParams = e1.currentParams
          /\ aFlights = e1.flights
          /\ aNext = e1.next
          /\ intervalId = e1.intervalId
          /\ cacheTimeoutId = e1.cacheTimeoutId
          /\ aLast = e1.last
          /\ aNewest = e1.newest
          /\ cleaned = e1.cleaned
          /\ sawLoading = e1.sawLoading
          /\ aPaging = e1.paging

InitA == \E cfg \in Configs : Construct(cfg)
InitAccumulating == \E cfg \in AccumulateConfigs : Construct(cfg)
IdleA ==
    Construct([impl |-> "query", enabled |-> FALSE, expectsParams |-> FALSE,
               stalePositive |-> FALSE, retryCount |-> 0, interval |-> FALSE,
               paginated |-> FALSE, accumulate |-> FALSE])

NextA ==
    \/ \E p \in ParamArgs : AReload(p)
    \/ \E p \in ParamArgs : ARefresh(p)
    \/ \E p \in ParamArgs : ASetParams(p)
    \/ AMutate
    \/ AReset
    \/ ACleanup
    \/ AIntervalFire
    \/ ACacheTimeout
    \/ ATimePasses
    \/ \E f \in aFlights, h \in HasMoreVals : AResolve(f, h)
    \/ \E f \in aFlights : AReject(f)
    \/ \E f \in aFlights : ARetry(f)
    \/ ANextPage
    \/ APrevPage
    \/ \E page \in Pages : AGoToPage(page)
    \/ AResetPagination

(***************************************************************************)
(*                 ONE CELL: SET, MIDDLEWARE, SUBSCRIBE, RESET             *)
(* A single cell outside any batch, with its middleware pipeline, in three *)
(* versions of set:                                                        *)
(*   "queue"    src/src/core.ts set (lines 64-96), the pipeline inline;    *)
(*   "registry" src/src/core/core.ts set (lines 269-289) over              *)
(*              processMiddleware of src/src/utils.ts lines 352-381;       *)
(*   "named"    the same set over processMiddleware of src/src/utils.ts    *)
(*              lines 171-208, whose middleware return their result.       *)
(* A value is a primitive (ref 0) or a plain record with one field, a; ref *)
(* tells two records with the same content apart.                          *)
(***************************************************************************)
MaxM == 1
MaxPipe == 2
MSubs == 2
MInitial == 0

MContents == 0..MaxM
MSubIds == 1..MSubs
MUndefined == [ref |-> 0, a |-> Undefined]
Prim(n) == [ref |-> 0, a |-> n]

\* what one middleware does with the value it is given
Kinds == {"pass", "inc", "veto", "throw", "undef"}
Pipes == UNION {[1..n -> Kinds] : n \in 0..MaxPipe}

\* a value the middleware or the updater builds: for a record, a new object
Rebuilt(x, n) == IF mCfg.obj THEN [ref |-> 1 - x.ref, a |-> n] ELSE Prim(n)
Inc(x) == Rebuilt(x, (x.a + 1) % (MaxM + 1))

IsObject(x) == mCfg.obj /\ x # MUndefined

\* utils.ts shallowEqual (lines 210-249)
ShallowEqual(x, y) ==
    IF x = y THEN TRUE
    ELSE IF x = MUndefined \/ y = MUndefined THEN FALSE
    ELSE IF IsObject(x) /\ IsObject(y) THEN x.a = y.a
    ELSE FALSE

\* how a run of the pipeline ends: it threw, or it yields v; `ran` counts the
\* middleware that were called and `stopped` tells that one ended the chain
Outcome(threw, v, ran, stopped) ==
    [threw |-> threw, v |-> v, ran |-> ran, stopped |-> stopped]

RECURSIVE MiddlewareLoopNext(_, _, _)
\* the while loop of processMiddleware (utils.ts lines 360-378), which is
\* also the loop of src/core.ts set (lines 72-90)
MiddlewareLoopNext(cur, pipe, i) ==
    IF i > Len(pipe) THEN Outcome(FALSE, cur, Len(pipe), FALSE)
    ELSE IF pipe[i] = "throw" THEN Outcome(TRUE, cur, i, FALSE)
    ELSE IF pipe[i] = "veto" THEN Outcome(FALSE, cur, i, TRUE)
    ELSE IF pipe[i] = "undef" THEN Outcome(TRUE, cur, i, FALSE)
    ELSE MiddlewareLoopNext(IF pipe[i] = "inc" THEN Inc(cur) ELSE cur, pipe, i + 1)

\* a processMiddleware that swallows what a middleware throws and returns
\* the value reached so far
ProcessMiddlewareNextCatching(v, pipe) ==
    IF v = MUndefined THEN Outcome(TRUE, v, 0, FALSE)
    ELSE LET r == MiddlewareLoopNext(v, pipe, 1)
         IN Outcome(FALSE, r.v, r.ran, r.stopped)
\* processMiddleware, utils.ts lines 352-381
ProcessMiddlewareNext(v, pipe) ==
    IF v = MUndefined THEN Outcome(TRUE, v, 0, FALSE)
    ELSE MiddlewareLoopNext(v, pipe, 1)

RECURSIVE MiddlewareLoopNamed(_, _, _)
\* the for loop of processMiddleware (utils.ts lines 181-205): a middleware
\* returns its result, and undefined stops the loop
MiddlewareLoopNamed(cur, pipe, i) ==
    IF i > Len(pipe) THEN Outcome(FALSE, cur, Len(pipe), FALSE)
    ELSE IF pipe[i] = "throw" THEN Outcome(TRUE, cur, i, FALSE)
    ELSE IF pipe[i] \in {"veto", "undef"} THEN Outcome(FALSE, cur, i, TRUE)
    ELSE MiddlewareLoopNamed(IF pipe[i] = "inc" THEN Inc(cur) ELSE cur, pipe, i + 1)

\* processMiddleware, utils.ts lines 171-208: only null is refused
ProcessMiddlewareNamed(v, pipe) == MiddlewareLoopNamed(v, pipe, 1)

ProcessMiddleware(v, pipe) ==
    IF mCfg.ver = "named" THEN ProcessMiddlewareNamed(v, pipe)
    ELSE ProcessMiddlewareNext(v, pipe)

\* the test that lets set write: src/core.ts line 92, core/core.ts lines 280-285
ChangedAlways(processed, cur) == TRUE
Changed(processed, cur) ==
    IF mCfg.ver = "queue" THEN processed # cur
    ELSE /\ ~IsObject(processed) \/ ~IsObject(cur) \/ ~ShallowEqual(processed, cur)
         /\ processed # cur

NoCalls == [s \in MSubIds |-> 0]
\* subscribers.forEach(subscriber => subscriber(value))
CallAll(subs) == [s \in MSubIds |-> IF s \in subs THEN 1 ELSE 0]

\* the record of a call: the value before it, the candidate it resolved, how
\* the pipeline ended and with which value, which callbacks it invoked and
\* the argument they were given
MCall(op, cand, r, calls, arg) ==
    [op |-> op, prev |-> mValue, cand |-> cand, threw |-> r.threw, ran |-> r.ran,
     stopped |-> r.stopped, final |-> r.v, calls |-> calls, arg |-> arg]
Quiet == Outcome(FALSE, mValue, 0, FALSE)
Built == mLast.op # "refused"

\* set, from the resolved candidate on
SetCandidate(op, cand) ==
    LET r == ProcessMiddleware(cand, mCfg.pipe)
        writes == ~r.threw /\ Changed(r.v, mValue)
    IN /\ Built
       /\ mValue' = IF writes THEN r.v ELSE mValue
       /\ mLast' = MCall(op, cand, r, IF writes THEN CallAll(mSubs) ELSE NoCalls,
                         IF writes THEN r.v ELSE mValue)
       /\ UNCHANGED <<mCfg, mSubs>>

\* the values a caller can pass: undefined, the current value itself, or a
\* value built by the caller
Literals == {MUndefined, mValue} \cup {Rebuilt(mValue, n) : n \in MContents}

\* set(newValue)
MSet(v) ==
    /\ SetCandidate("set", v)
    /\ UNCHANGED notM

\* set(updater): newValue = updater(value)
Updaters == {"same", "inc", "undef"}
Updated(f) ==
    IF f = "same" THEN mValue
    ELSE IF f = "inc" /\ mValue # MUndefined THEN Inc(mValue)
    ELSE MUndefined

MUpdate(f) ==
    /\ mCfg.ver # "queue"
    /\ SetCandidate("update", Updated(f))
    /\ UNCHANGED notM

\* subscribe(callback): subscribers.add(callback); callback(value)
MSubscribe(s) ==
    /\ Built
    /\ s \notin mSubs
    /\ mSubs' = mSubs \cup {s}
    /\ mLast' = MCall("subscribe", mValue, Quiet, CallAll({s}), mValue)
    /\ UNCHANGED <<mCfg, mValue, notM>>

\* the function subscribe returned
MUnsubscribe(s) ==
    /\ Built
    /\ s \in mSubs
    /\ mSubs' = mSubs \ {s}
    /\ mLast' = MCall("unsubscribe", mValue, Quiet, NoCalls, mValue)
    /\ UNCHANGED <<mCfg, mValue, notM>>

MInitialValue == Prim(MInitial)
\* a reset that notifies only when it changes the value
MResetIfChanged ==
    /\ Built
    /\ mValue' = MInitialValue
    /\ mLast' = MCall("reset", MInitialValue, Quiet,
                      IF mValue # MInitialValue THEN CallAll(mSubs) ELSE NoCalls,
                      MInitialValue)
    /\ UNCHANGED <<mCfg, mSubs, notM>>
\* reset(): value = initialValue, then the subscribers are called
MReset ==
    /\ Built
    /\ mValue' = MInitialValue
    /\ mLast' = MCall("reset", MInitialValue, Quiet, CallAll(mSubs), MInitialValue)
    /\ UNCHANGED <<mCfg, mSubs, notM>>

MConfigs == [ver : {"queue", "registry", "named"}, pipe : Pipes, obj : BOOLEAN]

\* if (initialValue === undefined || initialValue === null) throw
ChunkAccepts(initial) == initial # MUndefined

\* chunk(initialValue, middleware); when the constructor throws there is no
\* cell, and mValue only keeps the value that was offered
MConstruct(cfg, initial) ==
    /\ mCfg = cfg
    /\ mValue = initial
    /\ mSubs = {}
    /\ mLast = [op |-> IF ChunkAccepts(initial) THEN "chunk" ELSE "refused",
                prev |-> initial, cand |-> initial,
                threw |-> ~ChunkAccepts(initial), ran |-> 0, stopped |-> FALSE,
                final |-> initial, calls |-> NoCalls, arg |-> initial]

InitM == \E cfg \in MConfigs, initial \in {MInitialValue, MUndefined} :
            MConstruct(cfg, initial)
IdleM == MConstruct([ver |-> "registry", pipe |-> <<>>, obj |-> FALSE], MInitialValue)

NextM ==
    \/ \E v \in Literals : MSet(v)
    \/ \E f \in Updaters : MUpdate(f)
    \/ \E s \in MSubIds : MSubscribe(s)
    \/ \E s \in MSubIds : MUnsubscribe(s)
    \/ MReset

(***************************************************************************)
(*                             DERIVED CELLS                               *)
(* A computed that tracks what it reads (src/unnamed/part_009), here       *)
(*     computed(() => flag.get() ? a.get() + 2 * b.peek() : b.get()),      *)
(* and a selector of the field `name` of a source cell holding             *)
(* { name, age }, in three versions of src/src/core/selector.ts:           *)
(*   "options"  lines 21-68, "cached" lines 85-116, "plain" lines 120-144. *)
(* The selector's cells are those of src/src/core/core.ts lines 255-303.   *)
(***************************************************************************)
MaxK == 1
KCells == {"flag", "a", "b"}
KVals == 0..MaxK

ComputeFn(val) ==
    IF val["flag"] = 1 THEN val["a"] + 2 * val["b"] ELSE val["b"]

\* a compute function that fails on one input, read after flag and a:
\*     () => { if (flag.get() && a.get() === 1) throw ...; return ... }
Throws(k) == k.fails /\ k.val["flag"] = 1 /\ k.val["a"] = 1

\* trackDependencies(computeFn): the result and the cells whose get() ran
TrackDependencies(val) ==
    [value |-> ComputeFn(val),
     deps |-> IF val["flag"] = 1 THEN <<"flag", "a">> ELSE <<"flag", "b">>]

\* a _recompute that keeps the subscriptions it has
RecomputeKeepingDeps(k) ==
    IF ~k.isDirty THEN k
    ELSE LET t == TrackDependencies(k.val)
             k1 == [k EXCEPT !.isDirty = FALSE, !.reads = Range(t.deps),
                             !.runs = @ + 1, !.depth = 1]
         IN IF t.value # k.cachedValue
            THEN [k1 EXCEPT !.cachedValue = t.value,
                            !.told = IF k.registered
                                     THEN Append(@, t.value) ELSE @]
            ELSE k1
\* a _recompute that hands every result to computedChunk.set
RecomputeAlwaysSetting(k) ==
    IF ~k.isDirty THEN k
    ELSE LET t == TrackDependencies(k.val)
             k1 == [k EXCEPT !.isDirty = FALSE, !.reads = Range(t.deps),
                             !.runs = @ + 1, !.depth = 1]
             k2 == IF t.deps # k.dependencies
                   THEN [k1 EXCEPT !.unsubs = Range(t.deps),
                                   !.dependencies = t.deps, !.moved = TRUE]
                   ELSE k1
         IN [k2 EXCEPT !.cachedValue = t.value,
                       !.told = IF k.registered
                                THEN Append(@, t.value) ELSE @]
\* _recompute.  isDirty is cleared before the function runs, and a throw of
\* the function leaves through every frame with nothing else done.
\* computedChunk.set(newValue) calls the registered callback; a callback
\* that writes (k.writer: () => a.set(0)) reaches, through a's subscribers,
\* the callback the computed subscribed with, which calls _recompute again
\* while this call is still running.  level counts the calls of _recompute
\* that are running, depth is the largest level the operation reached.
RECURSIVE KRecompute(_)
KRecompute(k) ==
    IF ~k.isDirty THEN k
    ELSE LET in == [k EXCEPT !.isDirty = FALSE, !.runs = @ + 1,
                             !.level = @ + 1,
                             !.depth = IF k.level + 1 > @ THEN k.level + 1 ELSE @]
         IN IF Throws(k)
            THEN [in EXCEPT !.threw = TRUE, !.reads = {"flag", "a"}, !.level = 0]
            ELSE
            LET t == TrackDependencies(k.val)
                k1 == [in EXCEPT !.reads = Range(t.deps)]
                k2 == IF t.deps # k.dependencies
                      THEN [k1 EXCEPT !.unsubs = Range(t.deps),
                                      !.dependencies = t.deps, !.moved = TRUE]
                      ELSE k1
                k3 == [k2 EXCEPT !.cachedValue = t.value,
                                 !.told = IF k.registered
                                          THEN Append(@, t.value) ELSE @]
                wrote == [k3 EXCEPT !.val["a"] = 0]
                k4 == IF ~(k3.registered /\ k3.writer /\ k3.val["a"] # 0) THEN k3
                      ELSE IF "a" \notin wrote.unsubs THEN wrote
                      ELSE IF wrote.subscriberCount > 0
                           THEN KRecompute([wrote EXCEPT !.isDirty = TRUE])
                           ELSE [wrote EXCEPT !.isDirty = TRUE]
            IN IF t.value # k.cachedValue
               THEN [k4 EXCEPT !.level = k.level]
               ELSE [k2 EXCEPT !.level = k.level]

\* the computed as a call finds it
KCall == [kc EXCEPT !.runs = 0, !.moved = FALSE, !.told = <<>>, !.threw = FALSE,
                    !.depth = 0]

\* c.set(v) on one of the cells; the callback the computed subscribed with
KSet(c, v) ==
    /\ v # kc.val[c]
    /\ LET k1 == [KCall EXCEPT !.val[c] = v]
           k2 == [k1 EXCEPT !.isDirty = TRUE]
       IN kc' = IF c \notin kc.unsubs THEN k1
                ELSE IF kc.subscriberCount > 0 THEN KRecompute(k2) ELSE k2
    /\ UNCHANGED <<sel, rt, notV>>

\* get()
KGet ==
    /\ kc' = KRecompute(KCall)
    /\ UNCHANGED <<sel, rt, notV>>

\* recompute()
KRecomputeNow ==
    /\ kc' = KRecompute([KCall EXCEPT !.isDirty = TRUE])
    /\ UNCHANGED <<sel, rt, notV>>

\* subscribe(callback): computedChunk.subscribe(callback); subscriberCount++
KSubscribe ==
    /\ ~kc.registered
    /\ kc' = [KCall EXCEPT !.registered = TRUE, !.subscriberCount = @ + 1]
    /\ UNCHANGED <<sel, rt, notV>>

\* the function subscribe returned: subscriberCount--; unsubscribe()
KUnsubscribe ==
    /\ kc.registered
    /\ kc' = [KCall EXCEPT !.registered = FALSE, !.subscriberCount = @ - 1]
    /\ UNCHANGED <<sel, rt, notV>>

\* the function subscribe returned, called twice: the second call finds
\* no callback to remove and decrements again
MaxDebt == 2
KUnsubscribeTwice ==
    /\ kc.registered
    /\ kc.subscriberCount - 2 >= -MaxDebt
    /\ kc' = [KCall EXCEPT !.registered = FALSE, !.subscriberCount = @ - 2]
    /\ UNCHANGED <<sel, rt, notV>>

\* destroy(): unsubs.forEach(unsub => unsub()); computedChunk.destroy();
\* subscriberCount = 0
KDestroy ==
    /\ kc' = [KCall EXCEPT !.unsubs = {}, !.registered = FALSE,
                           !.subscriberCount = 0]
    /\ UNCHANGED <<sel, rt, notV>>

\* set(v) on the computed: the object computed() returns has no set
KSetDerived ==
    /\ kc' = [KCall EXCEPT !.threw = TRUE]
    /\ UNCHANGED <<sel, rt, notV>>

\* computed(computeFn), with the callback its callers subscribe; a function
\* that throws in the constructor's run gives no computed
KConstruct(val, fails, writer) ==
    LET t == TrackDependencies(val)
    IN /\ ~(fails /\ val["flag"] = 1 /\ val["a"] = 1)
       /\ kc = [val |-> val, unsubs |-> Range(t.deps), dependencies |-> t.deps,
                isDirty |-> FALSE, cachedValue |-> t.value, subscriberCount |-> 0,
                registered |-> FALSE, fails |-> fails, writer |-> writer,
                level |-> 0, depth |-> 0,
                reads |-> Range(t.deps), runs |-> 0, moved |-> FALSE,
                told |-> <<>>, threw |-> FALSE]

SelConfigs ==
    {cfg \in [ver : {"options", "cached", "plain"}, object : BOOLEAN,
              useShallowEqual : BOOLEAN] :
        cfg.useShallowEqual => cfg.ver = "options"}

\* whether update() takes the selector's new result for a change; a result
\* is a name, or with cfg.object a new object { name } on every call
ResultChanged(new, cur) ==
    IF sel.cfg.ver = "options"
    THEN IF sel.cfg.useShallowEqual THEN new # cur ELSE sel.cfg.object \/ new # cur
    ELSE IF sel.cfg.ver = "cached" THEN new # cur
    ELSE sel.cfg.object \/ new # cur

\* derivedChunk.set(x): core.ts set, which stores and notifies on a change
DerivedSet(e, x) ==
    IF x # e.held
    THEN [e EXCEPT !.held = x, !.told = IF e.sub THEN Append(@, x) ELSE @]
    ELSE e

SCall(op) == [sel EXCEPT !.op = op, !.told = <<>>, !.threw = FALSE]

\* update(): the callback the selector subscribed to its source
Update(e) ==
    IF ResultChanged(e.src.name, e.cur)
    THEN DerivedSet([e EXCEPT !.cur = e.src.name], e.src.name)
    ELSE e

\* source.set({ name, age }); notifySubscribers calls update() at once, or
\* inside a batch only adds the source to dirtyChunks
SSourceSet(n, g) ==
    /\ <<n, g>> # <<sel.src.name, sel.src.age>>
    /\ LET e1 == [SCall("source") EXCEPT !.src = [name |-> n, age |-> g]]
       IN /\ sel' = IF rt.isBatching THEN e1 ELSE Update(e1)
          /\ rt' = [rt EXCEPT !.dirty = @ \/ rt.isBatching]
    /\ UNCHANGED <<kc, notV>>

\* get() on the selector: derivedChunk.get()
SGet ==
    /\ sel' = SCall("get")
    /\ UNCHANGED <<kc, rt, notV>>

\* subscribe(callback) on the selector; core.ts calls the callback at once
SSubscribe ==
    /\ ~sel.sub
    /\ sel' = [SCall("subscribe") EXCEPT !.sub = TRUE, !.told = <<sel.held>>]
    /\ UNCHANGED <<kc, rt, notV>>

SUnsubscribe ==
    /\ sel.sub
    /\ sel' = [SCall("unsubscribe") EXCEPT !.sub = FALSE]
    /\ UNCHANGED <<kc, rt, notV>>

\* set(v) on the selector
SSetDerived ==
    /\ sel' = [SCall("set") EXCEPT !.threw = TRUE]
    /\ UNCHANGED <<kc, rt, notV>>

\* reset() on the selector: "options" throws; "cached" and "plain" spread the
\* derived cell, whose reset stores initialValue and notifies
SResetDerived ==
    /\ sel' = IF sel.cfg.ver = "options"
              THEN [SCall("reset") EXCEPT !.threw = TRUE]
              ELSE [SCall("reset") EXCEPT !.held = sel.initial,
                                 !.told = IF sel.sub THEN <<sel.initial>> ELSE <<>>]
    /\ UNCHANGED <<kc, rt, notV>>

\* select(sourceChunk, selector, options)
SConstruct(cfg, n) ==
    sel = [cfg |-> cfg, src |-> [name |-> n, age |-> 0], cur |-> n, held |-> n,
           initial |-> n, sub |-> FALSE, op |-> "select", told |-> <<>>,
           threw |-> FALSE]

\* the calls of batch and computeValue that have not returned, innermost
\* last; a batch keeps its local wasBatchingBefore
Running(kind) == \E i \in 1..Len(rt.frames) : rt.frames[i].kind = kind
Top == rt.frames[Len(rt.frames)]
Pop == SubSeq(rt.frames, 1, Len(rt.frames) - 1)

\* batch(callback), up to the call of callback
RBatchEnter ==
    /\ Len(rt.frames) < MaxDepth
    /\ rt' = [rt EXCEPT !.frames = Append(@, [kind |-> "batch", was |-> rt.isBatching]),
                        !.isBatching = TRUE, !.last = "batch"]
    /\ UNCHANGED <<kc, sel, notV>>

\* a batch whose finally block is skipped when callback throws
BatchExitUnlessThrown(threw) ==
    /\ rt.frames # <<>> /\ Top.kind = "batch"
    /\ LET flush == ~Top.was /\ ~threw
       IN /\ rt' = [rt EXCEPT !.frames = Pop,
                              !.isBatching = IF flush THEN FALSE ELSE @,
                              !.dirty = IF flush THEN FALSE ELSE @,
                              !.last = IF threw THEN "batch threw" ELSE "batch done"]
          /\ sel' = IF flush /\ rt.dirty THEN Update(SCall("flush")) ELSE SCall("flush")
    /\ UNCHANGED <<kc, notV>>
\* batch(callback), from the return or the throw of callback on: the
\* finally block, where the outermost batch clears isBatching and
\* dirtyChunks and notifies the cells that were dirty
RBatchExit(threw) ==
    /\ rt.frames # <<>> /\ Top.kind = "batch"
    /\ LET flush == ~Top.was
       IN /\ rt' = [rt EXCEPT !.frames = Pop,
                              !.isBatching = IF flush THEN FALSE ELSE @,
                              !.dirty = IF flush THEN FALSE ELSE @,
                              !.last = IF threw THEN "batch threw" ELSE "batch done"]
          /\ sel' = IF flush /\ rt.dirty THEN Update(SCall("flush")) ELSE SCall("flush")
    /\ UNCHANGED <<kc, notV>>

\* computed(computeFn) of part_010, up to the call of computeFn in
\* computeValue: a new closure (isDirty = true), dependencies.clear(),
\* currentComputation = computeFn.  One computed is followed at a time.
CvBegin ==
    /\ Len(rt.frames) < MaxDepth
    /\ ~Running("eval")
    /\ rt' = [rt EXCEPT !.frames = Append(@, [kind |-> "eval", was |-> FALSE]),
                        !.currentComputation = TRUE, !.isDirty = TRUE,
                        !.built = "running", !.last = "computed"]
    /\ UNCHANGED <<kc, sel, notV>>

\* computeFn returns: cachedValue is assigned, isDirty = false, the finally
\* block clears currentComputation, and computed() returns its object
CvReturn ==
    /\ rt.frames # <<>> /\ Top.kind = "eval"
    /\ rt' = [rt EXCEPT !.frames = Pop, !.currentComputation = FALSE,
                        !.isDirty = FALSE, !.cachedValue = sel.src.name,
                        !.built = "built", !.last = "computed done"]
    /\ UNCHANGED <<kc, sel, notV>>

\* computeFn throws: the finally block clears currentComputation, and the
\* exception leaves computed()
CvThrow ==
    /\ rt.frames # <<>> /\ Top.kind = "eval"
    /\ rt' = [rt EXCEPT !.frames = Pop, !.currentComputation = FALSE,
                        !.built = "failed", !.last = "computed threw"]
    /\ UNCHANGED <<kc, sel, notV>>

\* get() on the computed: if (isDirty) return computeValue(); return cachedValue
CvGet ==
    /\ rt.built = "built"
    /\ ~rt.isDirty
    /\ rt' = [rt EXCEPT !.last = "computed get"]
    /\ UNCHANGED <<kc, sel, notV>>

\* nothing batching, nothing evaluating
RtIdle ==
    rt = [frames |-> <<>>, isBatching |-> FALSE, dirty |-> FALSE,
          currentComputation |-> FALSE, isDirty |-> TRUE, cachedValue |-> 0,
          built |-> "none", last |-> "none"]

InitV ==
    /\ \E val \in [KCells -> KVals] : KConstruct(val, FALSE, FALSE)
    /\ \E cfg \in SelConfigs, n \in KVals : SConstruct(cfg, n)
    /\ RtIdle
IdleV ==
    /\ KConstruct([c \in KCells |-> 0], FALSE, FALSE)
    /\ SConstruct([ver |-> "options", object |-> FALSE, useShallowEqual |-> FALSE], 0)
    /\ RtIdle
\* a selector of any version next to batches and a computed of part_010
InitS ==
    /\ KConstruct([c \in KCells |-> 0], FALSE, FALSE)
    /\ \E cfg \in SelConfigs, n \in KVals : SConstruct(cfg, n)
    /\ RtIdle

NextV ==
    \/ \E c \in KCells, v \in KVals : KSet(c, v)
    \/ KGet
    \/ KRecomputeNow
    \/ KSubscribe
    \/ KUnsubscribe
    \/ KSetDerived
    \/ \E n \in KVals, g \in KVals : SSourceSet(n, g)
    \/ SSubscribe
    \/ SUnsubscribe
    \/ SSetDerived
    \/ SResetDerived

\* the computed alone, with functions that can throw, callbacks that write
\* and callers that unsubscribe twice or destroy
InitK ==
    /\ \E val \in [KCells -> KVals], fails \in BOOLEAN, writer \in BOOLEAN :
          KConstruct(val, fails, writer)
    /\ SConstruct([ver |-> "options", object |-> FALSE, useShallowEqual |-> FALSE], 0)
    /\ RtIdle

NextK ==
    \/ \E c \in KCells, v \in KVals : KSet(c, v)
    \/ KGet
    \/ KRecomputeNow
    \/ KSubscribe
    \/ KUnsubscribe
    \/ KUnsubscribeTwice
    \/ KDestroy

NextS ==
    \/ \E n \in KVals, g \in KVals : SSourceSet(n, g)
    \/ SSubscribe
    \/ SUnsubscribe
    \/ SGet
    \/ RBatchEnter
    \/ \E threw \in BOOLEAN : RBatchExit(threw)
    \/ CvBegin
    \/ CvReturn
    \/ CvThrow
    \/ CvGet

(***************************************************************************)
(*                           SPECIFICATIONS                                *)
(***************************************************************************)
Init == InitB /\ InitH /\ InitD /\ IdleA /\ IdleM /\ IdleV
Next == NextB
Spec == Init /\ [][Next]_vars

InitHistory == InitH /\ IdleB /\ InitD /\ IdleA /\ IdleM /\ IdleV
SpecHistory == InitHistory /\ [][NextH]_vars

InitDiamond == InitD /\ IdleB /\ InitH /\ IdleA /\ IdleM /\ IdleV
SpecDiamond == InitDiamond /\ [][NextD]_vars

InitAsync == InitA /\ IdleB /\ InitH /\ InitD /\ IdleM /\ IdleV
SpecAsync == InitAsync /\ [][NextA]_vars

InitAccumulate == InitAccumulating /\ IdleB /\ InitH /\ InitD /\ IdleM /\ IdleV
SpecAccumulate == InitAccumulate /\ [][NextA]_vars

InitCell == InitM /\ IdleB /\ InitH /\ InitD /\ IdleA /\ IdleV
SpecCell == InitCell /\ [][NextM]_vars

InitDerived == InitV /\ IdleB /\ InitH /\ InitD /\ IdleA /\ IdleM
SpecDerived == InitDerived /\ [][NextV]_vars

InitComputed == InitK /\ IdleB /\ InitH /\ InitD /\ IdleA /\ IdleM
SpecComputed == InitComputed /\ [][NextK]_vars

InitSelector == InitS /\ IdleB /\ InitH /\ InitD /\ IdleA /\ IdleM
SpecSelector == InitSelector /\ [][NextS]_vars

InitThrowing == InitBThrowing /\ InitH /\ InitD /\ IdleA /\ IdleM /\ IdleV
SpecThrowing == InitThrowing /\ [][NextB]_vars

InitGuarded == InitHMiddleware /\ IdleB /\ InitD /\ IdleA /\ IdleM /\ IdleV
SpecGuarded == InitGuarded /\ [][NextH]_vars



\* C1: for set calls made on a cell inside one outermost batch, each subscriber
\* of the cell is invoked at most once for the batch, only at the flush (never
\* while the callback runs), and with the cell's final value.
C1_BatchOnce ==
    (obs.phase # "idle" /\ obs.onlySets) =>
        /\ ~obs.early
        /\ \A c \in Cells, s \in Subs :
              /\ obs.phase = "open" => obs.notified[c][s] = 0
              /\ obs.notified[c][s] <= 1
              /\ (obs.notified[c][s] = 1 /\ s \in Range(subscribers[c]))
                    => obs.lastVal[c][s] = value[c]
C1_Witness ==
    /\ obs.phase = "closed"
    /\ obs.onlySets
    /\ \E c \in Cells, s \in Subs : obs.writes[c] = 2 /\ obs.notified[c][s] = 1

\* C2: with nested batch calls no flush happens when an inner batch exits,
\* by return or by exception; the flush happens exactly once, when the
\* outermost batch exits.
C2_FlushAtOutermost ==
    /\ obs.phase = "open" => obs.flushes = 0
    /\ obs.phase = "closed" => obs.flushes = 1
C2_Witness ==
    /\ obs.phase = "open"
    /\ obs.sawThrow
    /\ Len(frames) = 1
    /\ obs.flushes = 0
    /\ \E c \in Cells : obs.writes[c] > 0 /\ subscribers[c] # <<>>

\* C3: when the callback of a batch throws, the exception goes on to the
\* caller of batch, the writes made before the throw stay, and the
\* subscribers of the cells written before the throw are notified once when
\* the outermost batch unwinds.
C3_ThrowStillFlushes ==
    /\ []((obs.phase = "closed" /\ obs.sawThrow /\ obs.onlySets) =>
            \A c \in chunkRegistry, s \in Subs :
                (obs.writes[c] > 0 /\ s \in Range(subscribers[c]))
                    => (obs.notified[c][s] = 1 /\ obs.lastVal[c][s] = value[c]))
    /\ [][BatchExit(TRUE) => (exc' /\ value' = value)]_vars
C3_Witness ==
    /\ obs.phase = "closed"
    /\ exc
    /\ obs.onlySets
    /\ \E c \in chunkRegistry, s \in Subs :
          obs.writes[c] > 0 /\ obs.notified[c][s] = 1 /\ obs.lastVal[c][s] = value[c]

\* C8: a set made through the wrapper while the cursor is not at the end of
\* the stack drops every entry after the cursor and appends the new value,
\* after which redo is unavailable; from 0, set(1), set(2), undo(), set(3)
\* leaves the history [0, 1, 3].
BranchExample == <<<<"set", 1>>, <<"set", 2>>, <<"undo", 0>>, <<"set", 3>>>>
C8_BranchDiscard ==
    /\ [](hOps = BranchExample => (history = <<0, 1, 3>> /\ ~canRedo))
    /\ [][\A v \in Vals :
            (HSet(v) /\ ~isHistoryAction /\ canRedo)
                => /\ history' = Append(SubSeq(history, 1, currentIndex + 1), v)
                   /\ currentIndex' = Len(history') - 1]_vars
C8_Witness ==
    /\ hOps = BranchExample
    /\ history = <<0, 1, 3>>
    /\ currentIndex = 2

\* C9: after every operation of the wrapper the cursor is a valid index into
\* the stack, 0 <= cursor < length of the stack.
C9_CursorValid == currentIndex >= 0 /\ currentIndex < Len(history)
C9_Witness == hOps # <<>> /\ hOps[Len(hOps)][1] = "destroy" /\ history = <<>>

NotifiedD == SelectSeq(dLog, LAMBDA e : e[1] = "D")
WroteA == dLast.op = "set" /\ dLast.changed /\ dLast.settled
DObserved == ExtCallback("D") \in Range(dSubs["D"])

\* C4: in the diamond, with a subscriber on D, a single write to A that
\* changes B and C notifies D's subscriber exactly once.
C4_OneNotification == (WroteA /\ DObserved) => Len(NotifiedD) = 1

C4_Witness ==
    /\ WroteA
    /\ DObserved
    /\ Len(NotifiedD) = 2
    /\ NotifiedD[1][2] # NotifiedD[2][2]

\* a value of D built from B of the new A and C of the old A, or the reverse
Mixed(v) ==
    \/ v[1] = FB(dVal["A"]) /\ v[2] = FC(dLast.old)
    \/ v[1] = FB(dLast.old) /\ v[2] = FC(dVal["A"])

\* C5: after a single write to A, D's function never produces, and D's
\* subscriber never receives, a value that combines B of the new A with C of
\* the old A (or C of the new A with B of the old A).
C5_NoGlitch ==
    WroteA =>
        /\ \A i \in 1..Len(dEvals) : ~Mixed(dEvals[i])
        /\ \A i \in 1..Len(NotifiedD) : ~Mixed(NotifiedD[i][2])

C5_Witness ==
    /\ WroteA
    /\ DObserved
    /\ Len(NotifiedD) = 1
    /\ Mixed(NotifiedD[1][2])
    /\ dVal["D"] = NotifiedD[1][2]
    /\ ~dDirty["D"]

\* C6: in every reachable state of the async cell, whatever the order of
\* fetch completions, retries, reload, refresh, setParams, mutate, reset,
\* page operations and timers, an error is never held while loading.
C6_ErrorNotLoading == aState.error # "null" => ~aState.loading

C6_Witness ==
    /\ aState.error = "E"
    /\ ~aState.loading
    /\ \E f \in aFlights : f.phase = "fetch"

\* C7: a fetch that succeeds after k failures, k <= its retry budget, leaves
\* the success state (loading false, error null, its data) and has called
\* the fetcher exactly k + 1 times; a fetch gives up with an error only
\* after failing once more than its budget, and a retry is dropped only when
\* the fetch was not forced and the cell holds data fetched within staleTime,
\* or when the parameters kept by the cell have become invalid (core version).
C7_RetryThenSuccess ==
    /\ aLast.ev = "success" =>
          /\ ~aState.loading
          /\ aState.error = "null"
          /\ aState.data = Fetched(aLast.id)
          /\ aLast.fails <= aLast.budget
          /\ aLast.attempts = aLast.fails + 1
    /\ aLast.ev = "error" => aLast.fails = aLast.budget + 1
    /\ aLast.ev = "stopped" =>
          \/ /\ aCfg.stalePositive
             /\ aState.lastFetched = "fresh"
             /\ aState.data # InitialData
          \/ /\ aCfg.impl = "core"
             /\ ~HasValidParams(currentParams)
             /\ ~aState.loading

C7_Witness ==
    /\ aCfg.retryCount = 2
    /\ aLast.ev = "success"
    /\ aLast.budget = 2
    /\ aLast.fails = 2
    /\ aLast.attempts = 3
    /\ aState = [InitialState(aCfg) EXCEPT !.loading = FALSE,
                                           !.data = Fetched(aLast.id),
                                           !.lastFetched = "old"]

\* C10: a reload or a parameter change leaves the fetches already under way
\* running, and a fetch that resolves writes its result into the cell even
\* when a fetch started after it has already written its own.
C10_LateResponseOverwrites ==
    /\ [][\A p \in ParamArgs : (AReload(p) \/ ASetParams(p))
              => aFlights \subseteq aFlights']_vars
    /\ [][\A f \in aFlights, h \in HasMoreVals : AResolve(f, h)
              => aState'.data = Fetched(f.id)]_vars

C10_Witness ==
    /\ aLast.ev = "success"
    /\ aLast.id < aNewest
    /\ aState.data = Fetched(aLast.id)
    /\ ~aState.loading

\* C11: while a batch is open, no set and no reset on a cell invokes a
\* subscriber of that cell; subscribers are invoked only once the batch
\* counter is back at 0.
C11_NoNotifyWhileOpen ==
    obs.phase = "open" =>
        /\ ~obs.early
        /\ \A c \in Cells, s \in Subs : obs.notified[c][s] = 0

C11_Witness ==
    /\ impl = "queue"
    /\ batchDepth > 0
    /\ obs.phase = "open"
    /\ ~obs.onlySets
    /\ \E c \in Cells, s \in Subs :
          /\ s \in Range(subscribers[c])
          /\ obs.notified[c][s] = 1
          /\ obs.lastVal[c][s] = CInitial

\* C12: when several cells are written inside one batch, the flush notifies
\* their subscribers in the order in which the cells were first written in
\* that batch, whatever writes to the same cells came later in the batch
\* (for the cells the registry still holds).
C12_FlushOrder ==
    (obs.phase = "closed" /\ obs.onlySets) =>
        SelectSeq(obs.order, LAMBDA c : c \in chunkRegistry)
            = SelectSeq(obs.first,
                        LAMBDA c : subscribers[c] # <<>> /\ c \in chunkRegistry)

C12_Witness ==
    /\ obs.phase = "closed"
    /\ obs.onlySets
    /\ obs.first = <<2, 1>>
    /\ obs.lastWrite = 2
    /\ obs.writes[2] = 2
    /\ obs.order = <<2, 1>>
    /\ chunkRegistry = Cells

MWrote == mLast.op \in {"set", "update"}

\* C13: when a middleware ends the chain without continuing it, set leaves
\* the cell at the value it had and calls no subscriber.
C13_VetoKeepsValue ==
    (MWrote /\ mLast.stopped) => (mValue = mLast.prev /\ mLast.calls = NoCalls)

C13_Witness ==
    /\ mCfg.ver = "queue"
    /\ mLast.op = "set"
    /\ mLast.stopped
    /\ mCfg.pipe[mLast.ran] = "veto"
    /\ mValue # mLast.prev
    /\ mValue = mLast.cand
    /\ \E s \in mSubs : mLast.calls[s] = 1

\* the position of the first middleware of the pipeline that does not pass a
\* value on, 0 when every one does
RECURSIVE FirstEnd(_, _)
FirstEnd(pipe, i) ==
    IF i > Len(pipe) THEN 0
    ELSE IF pipe[i] \in {"pass", "inc"} THEN FirstEnd(pipe, i + 1)
    ELSE i
Thrower == FirstEnd(mCfg.pipe, 1)

\* C14: when a middleware throws during set, the call throws, the middleware
\* after it are not run, the value is the one before the call and no
\* subscriber is called.
C14_ThrowAborts ==
    (/\ MWrote
     /\ mLast.cand # MUndefined
     /\ Thrower > 0
     /\ mCfg.pipe[Thrower] = "throw")
        => /\ mLast.threw
           /\ mLast.ran = Thrower
           /\ mValue = mLast.prev
           /\ mLast.calls = NoCalls

C14_Witness ==
    /\ mCfg.ver = "registry"
    /\ mCfg.pipe = <<"throw", "inc">>
    /\ mLast.op = "set"
    /\ mLast.cand # mLast.prev
    /\ mLast.threw
    /\ mLast.ran = 1
    /\ mSubs # {}
    /\ mValue = mLast.prev

\* C15: the value of a cell is never undefined: chunk(undefined) throws, and a
\* set or an updater call whose candidate or whose processed value is
\* undefined throws or is ignored, and leaves the value as it was.
C15_NeverUndefined ==
    /\ mLast.op = "refused" <=> (mLast.op \in {"chunk", "refused"} /\ mLast.cand = MUndefined)
    /\ Built => mValue # MUndefined
    /\ (MWrote /\ (mLast.cand = MUndefined \/ mLast.final = MUndefined))
          => mValue = mLast.prev

C15_Witness ==
    /\ mCfg.ver = "named"
    /\ mCfg.pipe = <<>>
    /\ mLast.op = "set"
    /\ mLast.cand = MUndefined
    /\ mLast.prev # MUndefined
    /\ ~mLast.threw
    /\ mValue = MUndefined
    /\ \E s \in mSubs : mLast.calls[s] = 1

\* the final value of the last set equals the value the cell had: the same
\* value, or for plain records (where set compares them) the same content
SameAsCurrent ==
    \/ mLast.final = mLast.prev
    \/ /\ mCfg.ver # "queue"
       /\ mCfg.obj
       /\ mLast.final # MUndefined
       /\ mLast.prev # MUndefined
       /\ mLast.final.a = mLast.prev.a

C17_NoCallOnSubscribe ==
    mLast.op = "subscribe" => mLast.calls = NoCalls

C17_Witness ==
    /\ mCfg.ver = "registry"
    /\ mLast.op = "subscribe"
    /\ \E s \in mSubs : mLast.calls[s] = 1
    /\ mLast.arg = mValue
    /\ mValue = mLast.prev

\* C18: reset puts the cell at its initial value and calls every subscriber
\* with it, also when the cell was already at that value.
C18_ResetNotifies ==
    mLast.op = "reset" =>
        /\ mValue = MInitialValue
        /\ mLast.arg = MInitialValue
        /\ \A s \in MSubIds : mLast.calls[s] = IF s \in mSubs THEN 1 ELSE 0

C18_Witness ==
    /\ mLast.op = "reset"
    /\ mLast.prev = MInitialValue
    /\ mValue = MInitialValue
    /\ mSubs = MSubIds
    /\ \A s \in mSubs : mLast.calls[s] = 1

\* C19: destroy() leaves the cell at its initial value and without
\* subscribers, and a callback that was subscribed when destroy() was called
\* is never invoked afterwards (unless it subscribes again): not by a later
\* set or reset, and not by the flush of a batch that was open at the time.
C19_DestroyedStaysQuiet ==
    /\ []~ghost
    /\ [][\A c \in Cells :
            BDestroy(c) => value'[c] = CInitial /\ subscribers'[c] = <<>>]_vars

C19_Witness ==
    /\ obs.phase = "closed"
    /\ obs.flushes = 1
    /\ obs.writes[1] = 1
    /\ obs.lastVal[1][1] # Undefined
    /\ obs.notified[1][1] = 0
    /\ dead[1] = {1}
    /\ value[1] = CInitial
    /\ ~ghost

Causes == {"notify", "get", "recompute"}

\* C20: a change notification from a dependency marks the computed dirty; its
\* function is run on the notification exactly when the computed has an
\* external subscriber at that moment, and otherwise the computed stays dirty
\* until a get() or a recompute() runs the function.
C20_LazyUnlessSubscribed ==
    /\ [](\A n \in dNoted :
            IF n.count > 0
            THEN <<n.x, "notify">> \in dRuns
            ELSE /\ <<n.x, "notify">> \notin dRuns
                 /\ dDirty[n.x] \/ <<n.x, "get">> \in dRuns)
    /\ [][\A x \in Comps :
            (dDirty[x] /\ ~dDirty'[x]) =>
                \E c \in Causes :
                    /\ <<x, c>> \in dRuns'
                    /\ c = "notify" => dCount[x] > 0]_vars

C20_Witness ==
    /\ dLast.op = "set"
    /\ [x |-> "B", count |-> 1] \in dNoted
    /\ <<"B", "notify">> \in dRuns
    /\ [x |-> "C", count |-> 0] \in dNoted
    /\ dDirty["C"]
    /\ \A c \in Causes : <<"C", c>> \notin dRuns

\* C29: the history never holds more than maxHistory entries; a recorded set
\* drops what lies after the cursor, appends the value, evicts from the front
\* what exceeds the limit, and leaves the cursor on the value just set, the
\* last entry.
C29_HistoryBounded ==
    /\ [](Len(history) <= MaxHistory)
    /\ [][\A v \in Vals :
            (HSet(v) /\ ~isHistoryAction) =>
                LET pushed == Append(SubSeq(history, 1,
                                  IF currentIndex + 1 < Len(history)
                                  THEN currentIndex + 1 ELSE Len(history)), v)
                    n == Len(history')
                IN /\ n <= MaxHistory
                   /\ n = IF Len(pushed) > MaxHistory THEN MaxHistory ELSE Len(pushed)
                   /\ history' = SubSeq(pushed, Len(pushed) - n + 1, Len(pushed))
                   /\ currentIndex' = n - 1
                   /\ history'[n] = v]_vars

C29_Witness ==
    /\ Len(hOps) = MaxHistory
    /\ \A i \in 1..MaxHistory : hOps[i][1] = "set"
    /\ history = [i \in 1..MaxHistory |-> hOps[i][2]]
    /\ currentIndex = MaxHistory - 1
    /\ hBase = history[MaxHistory]

\* C30: undo and redo leave the stack as it is; where there is an entry to go
\* to they move the cursor by one onto it and write it to the wrapped cell,
\* and at the end of the stack they do nothing.
C30_UndoRedoStep ==
    [][/\ HUndo =>
            /\ history' = history
            /\ IF currentIndex > 0 /\ Len(history) > 0
               THEN /\ currentIndex' = currentIndex - 1
                    /\ currentIndex' < Len(history)
                    /\ hBase' = HistAt(history, currentIndex')
               ELSE UNCHANGED <<currentIndex, hBase, isHistoryAction>>
       /\ HRedo =>
            /\ history' = history
            /\ IF currentIndex < Len(history) - 1
               THEN /\ currentIndex' = currentIndex + 1
                    /\ hBase' = HistAt(history, currentIndex')
               ELSE UNCHANGED <<currentIndex, hBase, isHistoryAction>>]_vars

C30_Witness ==
    /\ Len(hOps) = 3
    /\ hOps[1][1] = "set"
    /\ hOps[2] = <<"destroy", 0>>
    /\ hOps[3] = <<"undo", 0>>
    /\ history = <<>>
    /\ currentIndex = 0
    /\ isHistoryAction

\* C24: a fetch whose every attempt fails ends, after one attempt more than
\* its retry count, with loading false and the error stored; the error
\* callback has then been called once for the whole fetch, none of the
\* failed attempts before the last having called it, and the step that
\* stores the error leaves the data as it was.
C24_FailureOnce ==
    /\ [](aLast.ev = "error" =>
            /\ ~aState.loading
            /\ aState.error = "E"
            /\ aLast.attempts = aLast.budget + 1
            /\ aLast.fails = aLast.attempts
            /\ aLast.onError = 1
            /\ \A f \in aFlights : f.id # aLast.id)
    /\ [][\A f \in aFlights :
            AReject(f) =>
                /\ aState'.data = aState.data
                /\ f.retries > 0 =>
                      /\ aLast'.ev # "error"
                      /\ aState'.error = aState.error
                      /\ \E g \in aFlights' : g.id = f.id /\ g.onError = 0]_vars

\* C24 as stated: when the error is stored the data is the data the cell held
\* when that fetch was started.
C24_DataAsBeforeFetch == aLast.ev = "error" => aState.data = aLast.before

C24_Witness ==
    /\ aCfg.retryCount = 2
    /\ aLast.ev = "error"
    /\ aLast.attempts = 3
    /\ aLast.onError = 1
    /\ aState.error = "E"
    /\ aState.data = Fetched(1)
    /\ aLast.id = 2

\* C25: refresh() called on an enabled cell whose data is younger than
\* staleTime starts no fetch and changes nothing, and a refresh() that does
\* start a fetch found the data older than staleTime or never fetched;
\* reload() on an enabled cell starts a fetch whatever the age of the data.
\* (In src/src/core/asyncChunk.ts both first require valid parameters.)
C25_RefreshVsReload ==
    [][/\ (ARefresh(NoParams) /\ aCfg.enabled /\ aState.lastFetched = "fresh"
              /\ HasValidParams(currentParams)) =>
            /\ UNCHANGED <<aState, currentParams, aFlights, aNext, intervalId,
                           cacheTimeoutId>>
            /\ aLast'.ev = "fresh"
       /\ (ARefresh(NoParams) /\ aNext' # aNext) => aState.lastFetched # "fresh"
       /\ \A p \in ParamArgs :
            (AReload(p) /\ aCfg.enabled
               /\ (aCfg.impl = "core" => HasValidParams(currentParams'))) =>
                /\ aNext' = aNext + 1
                /\ aState'.loading
                /\ \E f \in aFlights' \ aFlights :
                      f.id = aNext /\ f.phase = "fetch" /\ f.attempts = 1]_vars

\* refresh() has just returned without fetching, and a reload() of data still
\* fresh is waiting for its fetcher
C25_Witness ==
    /\ ~aCfg.interval /\ ~aCfg.expectsParams /\ ~aCfg.paginated
    /\ aState.lastFetched = "fresh"
    /\ aState.data = Fetched(1)
    /\ \/ aLast.ev = "fresh" /\ aFlights = {}
       \/ \E f \in aFlights : f.id = 2 /\ f.force /\ f.phase = "fetch"

\* C26: for a fetcher that requires parameters, a step of the caller or of
\* the refetch interval that finds the parameters absent or invalid and
\* leaves them so starts no fetch, stores no error, and writes no state with
\* loading true.
C26_NoFetchWithoutParams ==
    [][(/\ aCfg.expectsParams
        /\ currentParams = NoParams /\ currentParams' = NoParams
        /\ \A f \in aFlights : ~(AResolve(f, "undefined") \/ AResolve(f, "false")
                                  \/ AReject(f) \/ ARetry(f))) =>
            /\ aNext' = aNext
            /\ aFlights' = aFlights
            /\ aState'.error = "null" \/ aState.error # "null"
            /\ ~sawLoading'
            /\ aState.loading \/ ~aState'.loading]_vars

\* reset() of src/src/core/asyncChunk.ts on a cell that has never had
\* parameters: subscribers were given a state with loading true
C26_Witness ==
    /\ aCfg.impl = "core" /\ aCfg.expectsParams /\ aCfg.enabled
    /\ currentParams = NoParams
    /\ aNext = 1 /\ aFlights = {}
    /\ sawLoading
    /\ ~aState.loading /\ aState.error = "null"
    /\ aLast.ev = "invalid"

\* C27: after cleanup(), for as long as the caller starts no further
\* operation, the refetch interval does not fire and the cache timer does not
\* clear the data, while a fetch that was in flight still completes and
\* writes its result.
C27_CleanupStopsTimers ==
    [][cleaned =>
          /\ ~AIntervalFire
          /\ ~ACacheTimeout
          /\ \A f \in aFlights, h \in HasMoreVals :
                AResolve(f, h) => aState'.data = Fetched(f.id) /\ ~aState'.loading]_vars

\* a fetch in flight at cleanup() has completed and armed the cache timer
C27_Witness ==
    /\ cleaned
    /\ cacheTimeoutId
    /\ ~intervalId
    /\ aLast.ev = "success"
    /\ aState.data = Fetched(aLast.id)

C21_SubscribedToWhatItReads ==
    /\ [](/\ kc.unsubs = kc.reads
          /\ Range(kc.dependencies) = kc.reads
          /\ kc.reads \in {{"flag", "a"}, {"flag", "b"}})
    /\ [][/\ kc'.runs > 0 =>
               kc'.reads = IF kc'.val["flag"] = 1 THEN {"flag", "a"} ELSE {"flag", "b"}
          /\ \A c \in KCells, v \in KVals :
               (KSet(c, v) /\ c \notin kc.reads) =>
                   /\ kc'.isDirty = kc.isDirty
                   /\ kc'.runs = 0
                   /\ kc'.cachedValue = kc.cachedValue
                   /\ kc'.told = <<>>]_vars

\* a run has just moved the subscription from a to b, and a has been written
C21_Witness ==
    /\ kc.moved /\ kc.runs = 1
    /\ kc.reads = {"flag", "b"}
    /\ kc.unsubs = {"flag", "b"}
    /\ kc.val["a"] = 1
    /\ kc.cachedValue = kc.val["b"]

C23_DerivedIsReadOnly ==
    [][/\ KSetDerived =>
            kc'.threw /\ kc'.cachedValue = kc.cachedValue /\ kc'.told = <<>>
       /\ (SSetDerived \/ SResetDerived) =>
            /\ sel'.threw
            /\ sel'.held = sel.held /\ sel'.cur = sel.cur
            /\ sel'.told = <<>>]_vars

\* reset() on a selector that spreads its derived cell has put the initial
\* result back and called the subscriber with it
C23_Witness ==
    /\ sel.cfg.ver # "options"
    /\ sel.op = "reset" /\ ~sel.threw
    /\ sel.sub /\ sel.told = <<sel.initial>>
    /\ sel.held = sel.initial
    /\ sel.cur # sel.initial

\* C35: whenever a fetch of the async cell is in flight, waiting for its
\* fetcher or between two attempts, the cell's loading flag is true.
C35_LoadingWhileInFlight == aFlights # {} => aState.loading

\* of two overlapping fetches the one started first has succeeded and written
\* loading false while the one started after it is still waiting
C35_Witness ==
    /\ aLast.ev = "success"
    /\ ~aState.loading
    /\ \E f \in aFlights : f.phase = "fetch" /\ f.id > aLast.id

\* C36: in a paginated cell the completion of a fetch leaves the page cursor
\* as it finds it, so that the cursor is the one the last page operation set.
C36_CompletionKeepsCursor ==
    [][\A f \in aFlights, h \in HasMoreVals :
          (aCfg.paginated /\ AResolve(f, h)) => aState'.page = aState.page]_vars

\* a fetch has completed and put the cursor back where it was when that fetch
\* started, while the fetch of a later page operation is still in flight
C36_Witness ==
    /\ aCfg.paginated
    /\ aLast.ev = "success"
    /\ \E f \in aFlights :
          /\ f.phase = "fetch" /\ f.id > aLast.id /\ f.attempts = 1
          /\ f.page # aState.page

\* C37: in accumulate mode a fetch that succeeds appends its page to the data
\* the cell holds when the fetch completes, so that the items another fetch
\* or a mutate() added while it was in flight stay.
C37_AppendsToCurrentData ==
    [][\A f \in aFlights, h \in HasMoreVals :
          (aCfg.accumulate /\ AResolve(f, h))
              => aState'.items = aState.items + PageSize]_vars

\* two page fetches that overlapped have both succeeded, with nothing but
\* page operations called, and the cell holds one page of items
C37_Witness ==
    /\ aCfg.accumulate
    /\ aPaging.only /\ aPaging.done = 2
    /\ aLast.ev = "success"
    /\ aFlights = {}
    /\ aState.items = PageSize

NoDestroy == hOps # TooMany /\ \A i \in 1..Len(hOps) : hOps[i][1] # "destroy"

\* C34: after set, undo, redo and clearHistory calls made through the wrapper,
\* the stack entry at the cursor is the wrapped cell's value, also when the
\* wrapped cell's middleware transforms or rejects what is written.
C34_CursorEntryIsValue == NoDestroy => HistAt(history, currentIndex) = hBase

\* set(MaxVal) through the wrapper on a cell whose middleware clamps or
\* rejects it: the stack received MaxVal, the cell did not
C34_Witness ==
    /\ hOps = <<<<"set", MaxVal>>>>
    /\ hMw # "none"
    /\ history = <<HInitial, MaxVal>> /\ currentIndex = 1
    /\ hBase # MaxVal

\* C38: once the outermost batch call has returned or thrown, also when a
\* subscriber threw during the flush, the batch counter is 0 and no dirty
\* mark and no queued notification is left for a later batch to deliver.
C38_NothingLeftBehind ==
    TopLevel =>
        /\ batchDepth = 0 /\ ~isBatching
        /\ dirtyChunks = <<>>
        /\ batchQueue = <<>>
        /\ \A c \in Cells : ~isDirty[c]

\* src/core.ts: the flush of a batch ended at a subscriber that threw, and
\* the queue still holds the closure of the cell, which is still marked dirty
C38_Witness ==
    /\ impl = "queue"
    /\ TopLevel /\ obs.phase = "closed"
    /\ batchDepth = 0
    /\ thrower \in Range(batchQueue)
    /\ isDirty[thrower]

\* C40: the computed's count of subscribers equals the number of callbacks
\* registered on it, and so is never negative, whatever subscribe,
\* unsubscribe (the same function called twice included) and destroy calls
\* were made.
C40_CountIsRegistered == kc.subscriberCount = (IF kc.registered THEN 1 ELSE 0)
\* the same unsubscribe function was called twice: no callback, count below 0
C40_Witness == ~kc.registered /\ kc.subscriberCount = -1

\* C39: when the function of a computed throws during a recomputation, the
\* computed is dirty afterwards.
C39_ThrowKeepsDirty == (kc.fails /\ kc.threw) => kc.isDirty
\* the function ran once, threw, and the computed reports clean while its
\* cache is the value of an older input
C39_Witness ==
    /\ kc.fails /\ kc.threw /\ kc.runs = 1
    /\ ~kc.isDirty
    /\ kc.val["flag"] = 1 /\ kc.val["a"] = 1

\* C31: no call of _recompute starts while another call of it is running:
\* the depth of recomputation is at most 1.
C31_DepthAtMostOne == kc.depth <= 1
\* a callback wrote a dependency while computedChunk.set was notifying it,
\* and the function ran again inside the running recomputation
C31_Witness == kc.writer /\ kc.depth = 2 /\ kc.runs = 2 /\ kc.level = 0

\* C33: whenever get() is called on a selector, after any writes to its
\* source, with or without subscribers, inside an open batch or not, it
\* returns the selector's function applied to the source's current value.
C33_GetIsCurrent == sel.op = "get" => sel.held = sel.src.name
\* get() inside an open batch, after a write to the source in that batch
C33_Witness ==
    /\ sel.op = "get" /\ rt.isBatching /\ rt.dirty
    /\ sel.held # sel.src.name

=============================================================================
